---- MODULE Spec2Model ----
(***************************************************************************)
(* Verification model of the LINNE numerical core:                         *)
(*   libs/lpc/src/lpc.c                      (LPC analysis, quantizer,     *)
(*                                            integer predictor)           *)
(*   libs/linne_internal/src/linne_utility.c (bit utilities, M/S           *)
(*                                            transform, preemphasis)      *)
(* Every subsystem has its own specification over the shared variables:    *)
(*   SpecPred   LPC_Predict / LPC_Synthesize                               *)
(*   SpecMS     LINNEUtility_MSConversion / LINNEUtility_LRConversion      *)
(*   SpecPreem  LINNEPreemphasisFilter_*                                   *)
(*   SpecUtil   LINNEUtility_RoundUp2PoweredSoft                           *)
(*   SpecQuant  LPC_QuantizeCoefficients                                   *)
(*   SpecCalc   LPCCalculator_CalculateLPCCoefficients{,AF,Burg}           *)
(* Arrays are 0-based in the source and are kept as sequences here; At and *)
(* Put do the index shift.                                                 *)
(***************************************************************************)
EXTENDS Integers, Sequences, FiniteSets, TLC

VARIABLES
    \* LPC_Predict / LPC_Synthesize
    pData,       \* const int32_t *data of the last LPC_Predict call
    pCoef,       \* const int32_t *coef
    pShift,      \* coef_rshift
    pResidual,   \* int32_t *residual after LPC_Predict
    pSynth,      \* the buffer LPC_Synthesize worked on, after the call
    pStatus,     \* LPCApiResult of LPC_Predict
    sStatus,     \* LPCApiResult of LPC_Synthesize
    pOob,        \* an access outside 0..num_samples-1 happened
    pPc,         \* "idle" | "predicted" | "synthesized"
    \* M/S transform
    msIn,        \* <<L, R>> as handed to LINNEUtility_MSConversion
    msBuf,       \* buffer[0], buffer[1] now
    msPc,        \* "idle" | "ms" | "lr"
    \* preemphasis filter
    enc,         \* struct LINNEPreemphasisFilter of the encoder
    dec,         \* struct LINNEPreemphasisFilter of the decoder
    blkIn,       \* the last block as handed to the encoder
    blkEnc,      \* the block after LINNEPreemphasisFilter_Preemphasis
    blkDec,      \* the block after LINNEPreemphasisFilter_Deemphasis
    nBlocks,     \* blocks processed so far
    prPc,        \* "idle" | "encoded"
    \* bit utilities
    uIn,         \* the argument: a uint32_t (as its 32-bit pattern) or a byte sequence
    uOut,        \* the result (as its bit pattern)
    uPc,         \* "idle" | "done" | "crc"
    \* LPC_QuantizeCoefficients
    qIn,         \* [double_coef, nbits_precision] of the call
    qOut,        \* [status, int_coef, coef_rshift]: the result and the caller's buffers
    qPc,         \* "idle" | "done"
    \* LPCCalculator
    lpcc,        \* struct LPCCalculator (calculator A)
    lpccB,       \* a second calculator created with the same config
    call,        \* the arguments of the analysis call made on both calculators
    ret,         \* its outcome on calculator A: [status, coef, oob]
    retB,        \* its outcome on calculator B
    cPc          \* "created" | "warmed" | "called"

predVars  == <<pData, pCoef, pShift, pResidual, pSynth, pStatus, sStatus, pOob, pPc>>
msVars    == <<msIn, msBuf, msPc>>
preemVars == <<enc, dec, blkIn, blkEnc, blkDec, nBlocks, prPc>>
utilVars  == <<uIn, uOut, uPc>>
quantVars == <<qIn, qOut, qPc>>
calcVars  == <<lpcc, lpccB, call, ret, retB, cPc>>
vars == <<predVars, msVars, preemVars, utilVars, quantVars, calcVars>>

(***************************************************************************)
(* Sequences as 0-based arrays.                                            *)
(***************************************************************************)
At(a, i) == a[i + 1]
Put(a, i, v) == [a EXCEPT ![i + 1] = v]
Fill(n, v) == [i \in 1..n |-> v]
InRange(a, i) == i >= 0 /\ i < Len(a)

RECURSIVE SeqsUpTo(_, _)
\* every sequence over S of length exactly n
SeqsOfLen(S, n) == [1..n -> S]
SeqsUpTo(S, n) == IF n = 0 THEN {<<>>} ELSE SeqsOfLen(S, n) \cup SeqsUpTo(S, n - 1)

(***************************************************************************)
(* int32_t / uint32_t arithmetic.  A 32-bit word is kept as the signed     *)
(* value of its two's-complement pattern, so every word is an integer in   *)
(* INT32_MIN..INT32_MAX; the operators below never form an intermediate    *)
(* outside that range.  Signed overflow wraps (modulo 2^32).               *)
(***************************************************************************)
INT32_MAX == 2147483647
INT32_MIN == -2147483647 - 1

\* a + b modulo 2^32
AddW(a, b) ==
    IF a >= 0 /\ b >= 0 /\ a > INT32_MAX - b
        THEN (a + INT32_MIN) + (b + INT32_MIN)
    ELSE IF a < 0 /\ b < 0 /\ a < INT32_MIN - b
        THEN (a - INT32_MIN) + (b - INT32_MIN)
    ELSE a + b

\* -a modulo 2^32
NegW(a) == IF a = INT32_MIN THEN INT32_MIN ELSE -a

\* a - b modulo 2^32
SubW(a, b) == IF b = INT32_MIN THEN AddW(AddW(a, INT32_MAX), 1) ELSE AddW(a, -b)

\* x * 2^k modulo 2^32, 1 <= k <= 30
ShlW(x, k) ==
    LET m == x % (2 ^ (32 - k))
    IN  (IF m >= 2 ^ (31 - k) THEN m - 2 ^ (32 - k) ELSE m) * (2 ^ k)

\* a * b modulo 2^32, from 16-bit halves so that no partial product leaves int32
MulW(a, b) ==
    LET a0 == a % 65536
        a1 == a \div 65536
        b0 == b % 65536
        b1 == b \div 65536
        cross == (((a1 * b0) % 65536) + ((a0 * b1) % 65536)) % 65536
        low == AddW(ShlW((a0 \div 256) * b0, 8), (a0 % 256) * b0)
    IN  AddW(ShlW(cross, 16), low)

\* x >> s on int32_t: arithmetic shift, floor(x / 2^s), 0 <= s <= 31
Sar(x, s) == IF s >= 31 THEN (IF x < 0 THEN -1 ELSE 0) ELSE x \div (2 ^ s)

\* a - b fits int32_t (no wrap happens)
SubFits(a, b) ==
    IF b = INT32_MIN THEN a < 0
    ELSE ~(a >= 0 /\ -b >= 0 /\ a > INT32_MAX + b) /\ ~(a < 0 /\ -b < 0 /\ a < INT32_MIN + b)

(***************************************************************************)
(* LPCApiResult (lpc.h) as used by lpc.c.                                  *)
(***************************************************************************)
LPC_APIRESULT_OK == "OK"
LPC_APIRESULT_INVALID_ARGUMENT == "INVALID_ARGUMENT"
LPC_APIRESULT_EXCEED_MAX_ORDER == "EXCEED_MAX_ORDER"
LPC_APIRESULT_EXCEED_MAX_NUM_SAMPLES == "EXCEED_MAX_NUM_SAMPLES"
LPC_APIRESULT_FAILED_TO_CALCULATION == "FAILED_TO_CALCULATION"

(***************************************************************************)
(* Model bounds and input sets.                                            *)
(***************************************************************************)
\* longest int32 signal handed to LPC_Predict / LPC_Synthesize
MaxLen == 3
\* largest coef_order handed to LPC_Predict / LPC_Synthesize
MaxPredOrder == 2

\* sample values: small ones of both signs, and one that makes products wrap
SampleVals == {-3, 5, INT32_MAX}
\* coefficient values: small ones of both signs, and one that makes products wrap
CoefVals == {-3, 1, INT32_MAX}
\* coef_rshift values: the rejected 0, small shifts, and the largest valid one
ShiftVals == {0, 1, 2, 31}
\* what a buffer holds before the callee writes it
JunkVals == {-9}
\* what a read outside a buffer may yield
GarbageVals == {0, 7}

(***************************************************************************)
(* LPC_Predict / LPC_Synthesize (lpc.c).  An access outside the buffers    *)
(* (possible only when coef_order > num_samples) is recorded in oob: such  *)
(* a read yields g, such a write is dropped.                               *)
(***************************************************************************)
Rd(a, i, g) == IF InRange(a, i) THEN At(a, i) ELSE g

RECURSIVE PredictTaps(_, _, _, _, _, _, _)
\* for (ord = ..; ord < ntaps; ord++) predict += coef[ord] * data[smpl - ord - 1];
PredictTaps(data, coef, smpl, ord, ntaps, predict, g) ==
    IF ord >= ntaps THEN predict
    ELSE PredictTaps(data, coef, smpl, ord + 1, ntaps,
                     AddW(predict, MulW(At(coef, ord), Rd(data, smpl - ord - 1, g))), g)

\* some tap of sample smpl reads outside data
TapsOob(data, smpl, ntaps) == \E ord \in 0..(ntaps - 1) : ~InRange(data, smpl - ord - 1)

\* the prediction without its rounding term 1 << (coef_rshift - 1)
PredictOfTruncating(data, coef, smpl, ntaps, coef_rshift, g) ==
    PredictTaps(data, coef, smpl, 0, ntaps, 0, g)

\* int32_t predict = (1 << (coef_rshift - 1)); then the taps
PredictOf(data, coef, smpl, ntaps, coef_rshift, g) ==
    PredictTaps(data, coef, smpl, 0, ntaps, 2 ^ (coef_rshift - 1), g)

\* residual[smpl] += (predict >> coef_rshift), the taps read from data
PredictStep(st, data, coef, smpl, ntaps, coef_rshift, g) ==
    LET predict == PredictOf(data, coef, smpl, ntaps, coef_rshift, g)
    IN  [buf |-> IF InRange(st.buf, smpl)
                    THEN Put(st.buf, smpl, AddW(At(st.buf, smpl), Sar(predict, coef_rshift)))
                    ELSE st.buf,
         oob |-> st.oob \/ ~InRange(st.buf, smpl) \/ TapsOob(data, smpl, ntaps)]

RECURSIVE PredictRampUp(_, _, _, _, _, _, _)
\* for (smpl = 1; smpl < coef_order; smpl++): the taps are the first smpl ones
PredictRampUp(st, data, coef, coef_order, coef_rshift, smpl, g) ==
    IF smpl >= coef_order THEN st
    ELSE PredictRampUp(PredictStep(st, data, coef, smpl, smpl, coef_rshift, g),
                       data, coef, coef_order, coef_rshift, smpl + 1, g)

RECURSIVE PredictSteady(_, _, _, _, _, _, _)
\* for (smpl = coef_order; smpl < num_samples; smpl++): all coef_order taps
PredictSteady(st, data, coef, coef_order, coef_rshift, smpl, g) ==
    IF smpl >= Len(data) THEN st
    ELSE PredictSteady(PredictStep(st, data, coef, smpl, coef_order, coef_rshift, g),
                       data, coef, coef_order, coef_rshift, smpl + 1, g)

\* LPC_Predict with the memcpy made before the argument check
LPC_PredictCopyFirst(data, coef, residual, coef_rshift, g) ==
    IF coef_rshift = 0
        THEN [status |-> LPC_APIRESULT_INVALID_ARGUMENT, buf |-> data, oob |-> FALSE]
    ELSE LET ramp == PredictRampUp([buf |-> data, oob |-> FALSE], data, coef, Len(coef),
                                   coef_rshift, 1, g)
             done == PredictSteady(ramp, data, coef, Len(coef), coef_rshift, Len(coef), g)
         IN  [status |-> LPC_APIRESULT_OK, buf |-> done.buf, oob |-> done.oob]

\* LPC_Predict(data, num_samples = Len(data), coef, coef_order = Len(coef),
\*             residual, coef_rshift)
LPC_Predict(data, coef, residual, coef_rshift, g) ==
    IF coef_rshift = 0
        THEN [status |-> LPC_APIRESULT_INVALID_ARGUMENT, buf |-> residual, oob |-> FALSE]
    ELSE LET copied == [buf |-> data, oob |-> FALSE]   \* memcpy(residual, data, ...)
             ramp == PredictRampUp(copied, data, coef, Len(coef), coef_rshift, 1, g)
             done == PredictSteady(ramp, data, coef, Len(coef), coef_rshift, Len(coef), g)
         IN  [status |-> LPC_APIRESULT_OK, buf |-> done.buf, oob |-> done.oob]

\* data[smpl] -= (predict >> coef_rshift), the taps read from data itself
SynthesizeStep(st, coef, smpl, ntaps, coef_rshift, g) ==
    LET predict == PredictOf(st.buf, coef, smpl, ntaps, coef_rshift, g)
    IN  [buf |-> IF InRange(st.buf, smpl)
                    THEN Put(st.buf, smpl, SubW(At(st.buf, smpl), Sar(predict, coef_rshift)))
                    ELSE st.buf,
         oob |-> st.oob \/ ~InRange(st.buf, smpl) \/ TapsOob(st.buf, smpl, ntaps)]

\* LPC_Synthesize without its ramp-up loop: samples 1..coef_order-1 are left as they are
SynthesizeRampUpSkipped(st, coef, coef_order, coef_rshift, smpl, g) == st

RECURSIVE SynthesizeRampUp(_, _, _, _, _, _)
SynthesizeRampUp(st, coef, coef_order, coef_rshift, smpl, g) ==
    IF smpl >= coef_order THEN st
    ELSE SynthesizeRampUp(SynthesizeStep(st, coef, smpl, smpl, coef_rshift, g),
                          coef, coef_order, coef_rshift, smpl + 1, g)

RECURSIVE SynthesizeSteady(_, _, _, _, _, _)
SynthesizeSteady(st, coef, coef_order, coef_rshift, smpl, g) ==
    IF smpl >= Len(st.buf) THEN st
    ELSE SynthesizeSteady(SynthesizeStep(st, coef, smpl, coef_order, coef_rshift, g),
                          coef, coef_order, coef_rshift, smpl + 1, g)

\* LPC_Synthesize(data, num_samples = Len(data), coef, coef_order = Len(coef), coef_rshift)
LPC_Synthesize(data, coef, coef_rshift, g) ==
    IF coef_rshift = 0
        THEN [status |-> LPC_APIRESULT_INVALID_ARGUMENT, buf |-> data, oob |-> FALSE]
    ELSE LET start == [buf |-> data, oob |-> FALSE]
             ramp == SynthesizeRampUp(start, coef, Len(coef), coef_rshift, 1, g)
             done == SynthesizeSteady(ramp, coef, Len(coef), coef_rshift, Len(coef), g)
         IN  [status |-> LPC_APIRESULT_OK, buf |-> done.buf, oob |-> done.oob]

\* the caller's buffers before any call: a signal, coefficients, a shift, and a
\* residual buffer of the signal's length holding earlier content
InitPred ==
    /\ pData \in SeqsUpTo(SampleVals, MaxLen)
    /\ pCoef \in SeqsUpTo(CoefVals, MaxPredOrder)
    /\ pShift \in ShiftVals
    /\ \E j \in JunkVals : pResidual = Fill(Len(pData), j)
    /\ pSynth = <<>>
    /\ pStatus = "none"
    /\ sStatus = "none"
    /\ pOob = FALSE
    /\ pPc = "idle"

\* r = LPC_Predict(x, c, order, shift)
Predict ==
    /\ pPc = "idle"
    /\ \E g \in GarbageVals :
          LET r == LPC_Predict(pData, pCoef, pResidual, pShift, g)
          IN  /\ pResidual' = r.buf
              /\ pStatus' = r.status
              /\ pOob' = r.oob
    /\ pPc' = "predicted"
    /\ UNCHANGED <<pData, pCoef, pShift, pSynth, sStatus>>

\* y = r; LPC_Synthesize(y, c, order, shift) in place
Synthesize ==
    /\ pPc = "predicted"
    /\ \E g \in GarbageVals :
          LET r == LPC_Synthesize(pResidual, pCoef, pShift, g)
          IN  /\ pSynth' = r.buf
              /\ sStatus' = r.status
              /\ pOob' = (pOob \/ r.oob)
    /\ pPc' = "synthesized"
    /\ UNCHANGED <<pData, pCoef, pShift, pResidual, pStatus>>


(***************************************************************************)
(* double arithmetic.  A double is modelled by the real number it stands   *)
(* for, kept as an exact fraction <<n, d>> in lowest terms with d > 0      *)
(* (rounding to 53 bits is not modelled); <<0, 0>> is NaN and <<1, 0>>,    *)
(* <<-1, 0>> are +Inf and -Inf.  Zero carries no sign.                     *)
(***************************************************************************)
RECURSIVE Gcd(_, _)
Gcd(a, b) == IF b = 0 THEN a ELSE Gcd(b, a % b)

Abs(n) == IF n < 0 THEN -n ELSE n
Sgn(n) == IF n < 0 THEN -1 ELSE IF n > 0 THEN 1 ELSE 0

\* the fraction n / d, d # 0, in lowest terms
Frac(n, d) ==
    LET g == Gcd(Abs(n), Abs(d))
    IN  IF d < 0 THEN <<(-n) \div g, (-d) \div g>> ELSE <<n \div g, d \div g>>

R(n) == <<n, 1>>
NaN == <<0, 0>>
Inf(sign) == <<sign, 0>>
IsNaN(x) == x = NaN
IsFinite(x) == x[2] # 0

RNeg(x) == <<-x[1], x[2]>>
RAbs(x) == <<Abs(x[1]), x[2]>>

RAdd(x, y) ==
    IF IsNaN(x) \/ IsNaN(y) THEN NaN
    ELSE IF ~IsFinite(x) THEN (IF ~IsFinite(y) /\ y # x THEN NaN ELSE x)
    ELSE IF ~IsFinite(y) THEN y
    ELSE LET g == Gcd(x[2], y[2])
         IN  Frac(x[1] * (y[2] \div g) + y[1] * (x[2] \div g), (x[2] \div g) * y[2])

RSub(x, y) == RAdd(x, RNeg(y))

RMul(x, y) ==
    IF IsNaN(x) \/ IsNaN(y) THEN NaN
    ELSE IF ~IsFinite(x) \/ ~IsFinite(y)
        THEN (IF x[1] = 0 \/ y[1] = 0 THEN NaN ELSE Inf(Sgn(x[1]) * Sgn(y[1])))
    ELSE IF x[1] = 0 \/ y[1] = 0 THEN R(0)
    ELSE LET g1 == Gcd(Abs(x[1]), y[2])
             g2 == Gcd(Abs(y[1]), x[2])
         IN  <<(x[1] \div g1) * (y[1] \div g2), (x[2] \div g2) * (y[2] \div g1)>>

\* 1.0 / y
RInv(y) ==
    IF IsNaN(y) THEN NaN
    ELSE IF ~IsFinite(y) THEN R(0)
    ELSE IF y[1] = 0 THEN Inf(1)
    ELSE IF y[1] < 0 THEN <<-y[2], -y[1]>>
    ELSE <<y[2], y[1]>>

\* x / y: 0/0 and Inf/Inf are NaN, a non-zero x over 0 is an infinity
RDiv(x, y) ==
    IF IsNaN(x) \/ IsNaN(y) THEN NaN
    ELSE IF IsFinite(y) /\ y[1] = 0
        THEN (IF x[1] = 0 THEN NaN ELSE Inf(Sgn(x[1])))
    ELSE IF ~IsFinite(x) /\ ~IsFinite(y) THEN NaN
    ELSE RMul(x, RInv(y))

\* x < y; every comparison with NaN is false
RLt(x, y) ==
    IF IsNaN(x) \/ IsNaN(y) THEN FALSE
    ELSE IF ~IsFinite(x) \/ ~IsFinite(y)
        THEN (IF x = y THEN FALSE
              ELSE IF ~IsFinite(x) THEN x[1] < 0
              ELSE y[1] > 0)
    ELSE RSub(x, y)[1] < 0

RLe(x, y) == ~IsNaN(x) /\ ~IsNaN(y) /\ (x = y \/ RLt(x, y))

\* 0 <= x < 1/q for a finite x and an integer q > 0, without forming x * q
BelowInv(x, q) == x[1] >= 0 /\ x[1] <= (x[2] - 1) \div q

\* floor(x) of a finite x
Floor(x) == x[1] \div x[2]

\* pow(2.0, e)
Pow2(e) == IF e >= 0 THEN R(2 ^ e) ELSE <<1, 2 ^ (-e)>>

RECURSIVE FrexpExponent(_)
\* the exponent frexp stores for a finite x > 0: x = m * 2^e with m in [1/2, 1)
FrexpExponent(x) ==
    IF x[1] >= x[2] THEN FrexpExponent(RMul(x, <<1, 2>>)) + 1
    ELSE IF 2 * x[1] < x[2] THEN FrexpExponent(RMul(x, R(2))) - 1
    ELSE 0

\* LPC_Round / LINNEUtility_Round: (d >= 0.0) ? floor(d + 0.5) : -floor(-d + 0.5),
\* of a finite d, as an integer
LPC_Round(d) ==
    IF d[1] >= 0 THEN Floor(RAdd(d, <<1, 2>>)) ELSE -Floor(RAdd(RNeg(d), <<1, 2>>))

(***************************************************************************)
(* LPC_QuantizeCoefficients (lpc.c).  The build keeps assert() enabled: a  *)
(* failed assertion aborts the call, which the model records as the        *)
(* status LPC_ASSERTION_FAILED with nothing written.                       *)
(***************************************************************************)
LPC_ASSERTION_FAILED == "AssertionFailed"

MaxQuantOrder == 2
MaxQuantNum == 8
MaxPrecision == 3
\* coefficient values: the eighths between -MaxQuantNum/8 and MaxQuantNum/8
QuantCoefVals == {Frac(k, 8) : k \in (-MaxQuantNum)..MaxQuantNum}
\* and two of larger magnitude
QuantLargeVals == {R(2), R(-4)}

RECURSIVE MaxAbsCoef(_, _, _)
\* max = 0.0; for ord: if (max < fabs(double_coef[ord])) max = fabs(double_coef[ord])
MaxAbsCoef(double_coef, ord, max) ==
    IF ord >= Len(double_coef) THEN max
    ELSE MaxAbsCoef(double_coef, ord + 1,
                    IF RLt(max, RAbs(At(double_coef, ord)))
                    THEN RAbs(At(double_coef, ord)) ELSE max)

\* if (qtmp >= qmax) qtmp = qmax - 1; else if (qtmp < -qmax) qtmp = -qmax;
QuantizeClamp(qtmp, qmax) ==
    IF qtmp >= qmax THEN qmax - 1
    ELSE IF qtmp < -qmax THEN -qmax
    ELSE qtmp

RECURSIVE QuantizeLoop(_, _, _, _, _, _)
\* for (ord = coef_order - 1; ord >= 0; ord--): the error left by one
\* coefficient is added to the next one towards the head
QuantizeLoop(double_coef, rshift, qmax, ord, qerror, int_coef) ==
    IF ord < 0 THEN int_coef
    ELSE LET scaled == RAdd(qerror, RMul(At(double_coef, ord), Pow2(rshift)))
             qtmp == QuantizeClamp(LPC_Round(scaled), qmax)
         IN  QuantizeLoop(double_coef, rshift, qmax, ord - 1,
                          RSub(scaled, R(qtmp)), Put(int_coef, ord, qtmp))

\* the whole call in a build without its assertion
LPC_QuantizeCoefficientsUnasserted(double_coef, nbits_precision, int_coef, coef_rshift) ==
    IF nbits_precision = 0
    THEN [status |-> LPC_APIRESULT_INVALID_ARGUMENT,
          int_coef |-> int_coef, coef_rshift |-> coef_rshift]
    ELSE LET max == MaxAbsCoef(double_coef, 0, R(0))
             qmax == 2 ^ (nbits_precision - 1)
         IN  IF RLe(max, Pow2(-(nbits_precision - 1)))
             THEN [status |-> LPC_APIRESULT_OK,
                   int_coef |-> Fill(Len(double_coef), 0),
                   coef_rshift |-> nbits_precision]
             ELSE LET rshift == (nbits_precision - 1) - FrexpExponent(max)
                  IN  [status |-> LPC_APIRESULT_OK,
                       int_coef |-> QuantizeLoop(double_coef, rshift, qmax,
                                         Len(double_coef) - 1, R(0), int_coef),
                       coef_rshift |-> rshift]

\* the whole call; int_coef and coef_rshift are the caller's buffers on entry
LPC_QuantizeCoefficients(double_coef, nbits_precision, int_coef, coef_rshift) ==
    IF nbits_precision = 0
    THEN [status |-> LPC_APIRESULT_INVALID_ARGUMENT,
          int_coef |-> int_coef, coef_rshift |-> coef_rshift]
    ELSE LET max == MaxAbsCoef(double_coef, 0, R(0))
             qmax == 2 ^ (nbits_precision - 1)
         IN  IF RLe(max, Pow2(-(nbits_precision - 1)))
             THEN [status |-> LPC_APIRESULT_OK,
                   int_coef |-> Fill(Len(double_coef), 0),
                   coef_rshift |-> nbits_precision]
             ELSE LET ndigit == FrexpExponent(max)
                      rshift == (nbits_precision - 1) - ndigit
                  IN  IF ~((nbits_precision - 1) > ndigit)
                      THEN [status |-> LPC_ASSERTION_FAILED,
                            int_coef |-> int_coef, coef_rshift |-> coef_rshift]
                      ELSE [status |-> LPC_APIRESULT_OK,
                            int_coef |-> QuantizeLoop(double_coef, rshift, qmax,
                                              Len(double_coef) - 1, R(0), int_coef),
                            coef_rshift |-> rshift]

InitQuant ==
    /\ qIn \in {[double_coef |-> c, nbits_precision |-> p] :
                   c \in SeqsUpTo(QuantCoefVals \cup QuantLargeVals, MaxQuantOrder),
                   p \in 0..MaxPrecision}
    /\ \E j \in JunkVals :
          qOut = [status |-> "none", int_coef |-> Fill(Len(qIn.double_coef), j),
                  coef_rshift |-> j]
    /\ qPc = "idle"

QuantizeCoefficients ==
    /\ qPc = "idle"
    /\ qOut' = LPC_QuantizeCoefficients(qIn.double_coef, qIn.nbits_precision,
                                        qOut.int_coef, qOut.coef_rshift)
    /\ qPc' = "done"
    /\ UNCHANGED qIn

(***************************************************************************)
(* The coefficient estimators (lpc.c).  A calculator is a record of the    *)
(* arrays LPCCalculator_Create lays out in the work area, 0-based like     *)
(* every array here; r_mat is a sequence of rows.  A failed assert() ends  *)
(* the call with LPC_ASSERTION_FAILED, the arrays left as they were at     *)
(* that point.                                                             *)
(***************************************************************************)
LPC_ERROR_OK == "LPC_ERROR_OK"
LPC_ERROR_NG == "LPC_ERROR_NG"
LPC_ERROR_SINGULAR_MATRIX == "LPC_ERROR_SINGULAR_MATRIX"
\* the call was ended by a fault on a store outside an array
LPC_MEMORY_FAULT == "MemoryFault"

LPC_WINDOWTYPE_RECTANGULAR == "RECTANGULAR"
LPC_WINDOWTYPE_SIN == "SIN"
LPC_WINDOWTYPE_WELCH == "WELCH"
\* an LPCWindowType value that is none of the three enumerators
WindowTypeOther == "OTHER"
WindowTypes ==
    {LPC_WINDOWTYPE_RECTANGULAR, LPC_WINDOWTYPE_SIN, LPC_WINDOWTYPE_WELCH, WindowTypeOther}

\* 2^-23
FLT_EPSILON == <<1, 8388608>>
\* fabs(x) < eps, for eps = 1 / q
AbsBelow(x, eps) == IsFinite(x) /\ BelowInv(RAbs(x), eps[2])

\* 1e-6
LPCAF_RESIDUAL_EPSILON == <<1, 1000000>>
\* 1e-8, the obj_epsilon the AF entry point passes
AFObjEpsilon == <<1, 100000000>>
\* FLT_MAX is above every finite value the model forms and compares like +Inf
FLT_MAX == Inf(1)

\* a local variable: e is computed once and named in F
With(e, F(_)) == F(e)

MAt(m, i, j) == At(At(m, i), j)
MPut(m, i, j, v) == Put(m, i, Put(At(m, i), j, v))

RECURSIVE RSumTo(_, _)
\* f[0] + ... + f[n-1], accumulated from 0.0
RSumTo(f, n) == IF n <= 0 THEN R(0) ELSE RAdd(RSumTo(f, n - 1), f[n - 1])

\* sin(LPC_PI * smpl / m), 0 <= smpl <= m, to the nearest eighth: x = smpl / m
\* is mapped by Bhaskara's approximation 16 x (1 - x) / (5 - 4 x (1 - x)),
\* which is within 0.002 of sin(pi x) and exact at 0, 1/6, 1/2, 5/6 and 1,
\* and the result is rounded to a multiple of 1/8; 0 / 0 is NaN
SinPi(smpl, m) ==
    IF m = 0 THEN NaN
    ELSE LET p == smpl * (m - smpl)
         IN  Frac(LPC_Round(Frac(8 * 16 * p, 5 * m * m - 4 * p)), 8)

\* the value LPC_ApplyWindow stores at output[smpl]; "untouched" when no
\* statement of the window's loop stores to that index.  window_type is one
\* of the three enumerators.
WindowedSample(window_type, input, num_samples, smpl) ==
    IF window_type = LPC_WINDOWTYPE_RECTANGULAR THEN At(input, smpl)
    ELSE IF window_type = LPC_WINDOWTYPE_SIN
        THEN RMul(At(input, smpl), SinPi(smpl, num_samples - 1))
    ELSE LET half == num_samples \div 2
             \* the loop index that stores to smpl, if any
             s == IF smpl < half THEN smpl ELSE num_samples - 1 - smpl
             divisor == Frac(4, (num_samples - 1) * (num_samples - 1))
             weight == RMul(divisor, R(s * (num_samples - 1 - s)))
         IN  IF s < half THEN RMul(At(input, smpl), weight) ELSE "untouched"

\* LPC_ApplyWindow(window_type, input, num_samples, output).  output has room
\* for Len(output) samples.  Stores past it are undefined: they fault
\* (ovf = "fault", the call ends with LPC_MEMORY_FAULT) or land in the memory
\* behind the buffer and are read back from there (ovf = "kept"); mem is the
\* buffer followed by that memory.
LPC_ApplyWindow(window_type, input, num_samples, output, ovf) ==
    IF window_type \notin
          {LPC_WINDOWTYPE_RECTANGULAR, LPC_WINDOWTYPE_SIN, LPC_WINDOWTYPE_WELCH}
    THEN [err |-> LPC_ERROR_NG, output |-> output, mem |-> output, oob |-> FALSE]
    ELSE LET w(smpl) == WindowedSample(window_type, input, num_samples, smpl)
             size == IF num_samples > Len(output) THEN num_samples ELSE Len(output)
             cell(i) ==
                 IF i < num_samples /\ w(i) # "untouched" THEN w(i)
                 ELSE IF i < Len(output) THEN At(output, i)
                 ELSE R(0)
             mem == [i \in 1..size |-> cell(i - 1)]
             oob == num_samples > Len(output)
         IN  [err |-> IF oob /\ ovf = "fault" THEN LPC_MEMORY_FAULT ELSE LPC_ERROR_OK,
              output |-> SubSeq(mem, 1, Len(output)),
              mem |-> mem,
              oob |-> oob]

\* the blocked sum without the loop over the remaining products
AutoCorrelationLagBlockedOnly(data, num_samples, lag) ==
    LET lag2 == 2 * lag
        L == IF 3 * lag < num_samples THEN 1 + (num_samples - 3 * lag) \div lag2 ELSE 0
        blocked(i) ==
            RSumTo([b \in 0..(L - 1) |->
                       RMul(At(data, b * lag2 + lag + i),
                            RAdd(At(data, b * lag2 + i), At(data, b * lag2 + lag2 + i)))], L)
    IN  RSumTo([i \in 0..(lag - 1) |-> blocked(i)], lag)

\* the blocked sum of lag `lag`: L blocks of 2 * lag products sharing their
\* middle factor, then the remaining products one by one
AutoCorrelationLag(data, num_samples, lag) ==
    LET lag2 == 2 * lag
        L == IF 3 * lag < num_samples THEN 1 + (num_samples - 3 * lag) \div lag2 ELSE 0
        Llag2 == L * lag2
        rest == num_samples - Llag2 - lag
        blocked(i) ==
            RSumTo([b \in 0..(L - 1) |->
                       RMul(At(data, b * lag2 + lag + i),
                            RAdd(At(data, b * lag2 + i), At(data, b * lag2 + lag2 + i)))], L)
        shared == RSumTo([i \in 0..(lag - 1) |-> blocked(i)], lag)
        plain == RSumTo([i \in 0..(rest - 1) |->
                            RMul(At(data, Llag2 + lag + i), At(data, Llag2 + i))], rest)
    IN  RAdd(shared, plain)

\* LPC_CalculateAutoCorrelation(data, num_samples, auto_corr, order): the
\* array handed in is returned with its first `order` entries computed (entry
\* 0 is accumulated onto whatever it held when order = 0)
LPC_CalculateAutoCorrelation(data, num_samples, auto_corr, order) ==
    IF ~(num_samples >= order)
    THEN [err |-> LPC_ASSERTION_FAILED, auto_corr |-> auto_corr]
    ELSE LET r0 == RAdd(IF order > 0 THEN R(0) ELSE At(auto_corr, 0),
                        RSumTo([i \in 0..(num_samples - 1) |->
                                   RMul(At(data, i), At(data, i))], num_samples))
         IN  [err |-> LPC_ERROR_OK,
              auto_corr |->
                  [i \in 1..Len(auto_corr) |->
                      IF i = 1 THEN r0
                      ELSE IF i - 1 < order
                          THEN AutoCorrelationLag(data, num_samples, i - 1)
                      ELSE auto_corr[i]]]

\* the first n entries of a set to v
SetFirst(a, n, v) == [i \in 1..Len(a) |-> IF i <= n THEN v ELSE a[i]]
\* memcpy / memmove of n entries from src[from..] to dst[to..]
CopyInto(dst, to, src, from, n) ==
    [i \in 1..Len(dst) |->
        IF i - 1 >= to /\ i - 1 < to + n THEN At(src, from + (i - 1 - to)) ELSE dst[i]]

\* one pass of the recursion's loop body for k; st carries a_vec, u_vec,
\* v_vec, parcor_coef, ek and err
LevinsonDurbinStep(st, auto_corr, k) ==
    LET sum == RSumTo([i \in 0..k |->
                          RMul(At(st.a_vec, i), At(auto_corr, k + 1 - i))], k + 1)
        gamma == RNeg(RDiv(sum, st.ek))
        ek == RMul(st.ek, RSub(R(1), RMul(gamma, gamma)))
        u_vec == [i \in 1..Len(st.u_vec) |->
                     IF i - 1 = 0 THEN R(1)
                     ELSE IF i - 1 = k + 1 THEN R(0)
                     ELSE IF i - 1 <= k THEN At(st.a_vec, i - 1)
                     ELSE st.u_vec[i]]
        v_vec == [i \in 1..Len(st.v_vec) |->
                     IF i - 1 = 0 THEN R(0)
                     ELSE IF i - 1 = k + 1 THEN R(1)
                     ELSE IF i - 1 <= k THEN At(st.a_vec, k + 1 - (i - 1))
                     ELSE st.v_vec[i]]
        a_vec == [i \in 1..Len(st.a_vec) |->
                     IF i - 1 < k + 2
                     THEN RAdd(u_vec[i], RMul(gamma, v_vec[i]))
                     ELSE st.a_vec[i]]
    IN  IF ~RLe(R(0), ek)
        THEN [st EXCEPT !.ek = ek, !.err = LPC_ASSERTION_FAILED]
        ELSE [a_vec |-> a_vec, u_vec |-> u_vec, v_vec |-> v_vec,
              parcor_coef |-> Put(st.parcor_coef, k + 1, RNeg(gamma)),
              ek |-> ek,
              err |-> IF RLt(RAbs(gamma), R(1)) THEN LPC_ERROR_OK
                      ELSE LPC_ASSERTION_FAILED]

RECURSIVE LevinsonDurbinLoop(_, _, _, _)
\* for (k = 1; k < coef_order; k++)
LevinsonDurbinLoop(st, auto_corr, coef_order, k) ==
    IF k >= coef_order \/ st.err # LPC_ERROR_OK THEN st
    ELSE LevinsonDurbinLoop(LevinsonDurbinStep(st, auto_corr, k), auto_corr, coef_order, k + 1)

\* LPC_LevinsonDurbinRecursion(lpcc, coef_order): [err, lpcc]
LPC_LevinsonDurbinRecursion(c, coef_order) ==
    IF AbsBelow(At(c.auto_corr, 0), FLT_EPSILON)
    THEN [err |-> LPC_ERROR_OK,
          lpcc |-> [c EXCEPT !.lpc_coef = SetFirst(@, coef_order + 1, R(0)),
                             !.parcor_coef = SetFirst(@, coef_order + 1, R(0))]]
    ELSE LET r0 == At(c.auto_corr, 0)
             r1 == At(c.auto_corr, 1)
             a1 == RNeg(RDiv(r1, r0))
             st0 == [a_vec |-> Put(Put(SetFirst(c.a_vec, coef_order + 2, R(0)), 0, R(1)), 1, a1),
                     u_vec |-> Put(SetFirst(c.u_vec, coef_order + 2, R(0)), 0, R(1)),
                     v_vec |-> Put(SetFirst(c.v_vec, coef_order + 2, R(0)), 1, R(1)),
                     parcor_coef |-> Put(Put(c.parcor_coef, 0, R(0)), 1, RDiv(r1, r0)),
                     ek |-> RAdd(r0, RMul(r1, a1)),
                     err |-> LPC_ERROR_OK]
         IN  With(LevinsonDurbinLoop(st0, c.auto_corr, coef_order, 1), LAMBDA st :
             With([c EXCEPT !.a_vec = st.a_vec, !.u_vec = st.u_vec,
                            !.v_vec = st.v_vec, !.parcor_coef = st.parcor_coef],
                  LAMBDA scratch :
                 IF st.err # LPC_ERROR_OK
                 THEN [err |-> st.err, lpcc |-> scratch]
                 ELSE [err |-> LPC_ERROR_OK,
                       lpcc |-> [scratch EXCEPT
                                    !.lpc_coef = CopyInto(@, 0, st.a_vec, 0, coef_order + 1)]]))

\* LPC_CalculateCoef(lpcc, data, num_samples, coef_order, window_type):
\* [err, lpcc, oob]
LPC_CalculateCoef(c, data, num_samples, coef_order, window_type, ovf) ==
    With(LPC_ApplyWindow(window_type, data, num_samples, c.buffer, ovf), LAMBDA win :
    With([c EXCEPT !.buffer = win.output], LAMBDA c1 :
        IF win.err = LPC_ERROR_NG
        THEN [err |-> LPC_ERROR_NG, lpcc |-> c, oob |-> FALSE]
        ELSE IF win.err = LPC_MEMORY_FAULT
        THEN [err |-> LPC_MEMORY_FAULT, lpcc |-> c1, oob |-> TRUE]
        ELSE
    With(LPC_CalculateAutoCorrelation(win.mem, num_samples, c.auto_corr, coef_order + 1),
         LAMBDA ac :
    With([c1 EXCEPT !.auto_corr = ac.auto_corr], LAMBDA c2 :
        IF ac.err = LPC_ASSERTION_FAILED
        THEN [err |-> LPC_ASSERTION_FAILED, lpcc |-> c1, oob |-> win.oob]
        ELSE IF num_samples < coef_order
        THEN [err |-> LPC_ERROR_OK,
              lpcc |-> [c2 EXCEPT !.lpc_coef = SetFirst(@, coef_order + 1, R(0)),
                                  !.parcor_coef = SetFirst(@, coef_order + 1, R(0))],
              oob |-> win.oob]
        ELSE With(LPC_LevinsonDurbinRecursion(c2, coef_order), LAMBDA ld :
                  [err |-> ld.err, lpcc |-> ld.lpcc, oob |-> win.oob])))))

\* what an entry point hands back: the status, the calculator, the caller's
\* coef array, and whether a store went past an array
CalcResult(status, c, coef, oob) ==
    [status |-> status, lpcc |-> c, coef |-> coef, oob |-> oob]

\* an internal error as the entry points report it
ApiStatusOf(err) ==
    IF err = LPC_ERROR_OK THEN LPC_APIRESULT_OK
    ELSE IF err \in {LPC_ASSERTION_FAILED, LPC_MEMORY_FAULT} THEN err
    ELSE LPC_APIRESULT_FAILED_TO_CALCULATION

\* LPCCalculator_CalculateLPCCoefficients
LPCCalculator_CalculateLPCCoefficients(c, data, num_samples, coef, coef_order, window_type, ovf) ==
    IF coef_order > c.max_order
    THEN CalcResult(LPC_APIRESULT_EXCEED_MAX_ORDER, c, coef, FALSE)
    ELSE IF num_samples > c.max_num_buffer_samples
    THEN CalcResult(LPC_APIRESULT_EXCEED_MAX_NUM_SAMPLES, c, coef, FALSE)
    ELSE With(LPC_CalculateCoef(c, data, num_samples, coef_order, window_type, ovf), LAMBDA r :
             IF r.err # LPC_ERROR_OK
             THEN CalcResult(ApiStatusOf(r.err), r.lpcc, coef, r.oob)
             ELSE CalcResult(LPC_APIRESULT_OK, r.lpcc,
                             CopyInto(coef, 0, r.lpcc.lpc_coef, 1, coef_order), r.oob))

\* q * s^(-1/2) for a rational q and a rational s > 0: the entries the
\* Cholesky factorisation stores are kept in this form, not evaluated
Rsqrt(q, s) == IF q[1] = 0 THEN R(0) ELSE <<"rsqrt", q, s>>

RECURSIVE CholeskyColumns(_, _, _, _, _)
\* the factorisation loop from column i on.  q[j][i] * s[i]^(-1/2) is the
\* entry stored at Amat[j][i] and s[i] the sum whose inverse root is
\* inv_diag[i]; n is the number of columns completed
CholeskyColumns(Amat, dim, i, q, s) ==
    IF i >= dim THEN [err |-> LPC_ERROR_OK, q |-> q, s |-> s, n |-> dim]
    ELSE LET sum == RSub(MAt(Amat, i, i),
                         RSumTo([k \in 0..(i - 1) |->
                                    RMul(MAt(q, i, k), RDiv(MAt(q, i, k), At(s, k)))], i))
             col(j) == RSub(MAt(Amat, i, j),
                            RSumTo([k \in 0..(i - 1) |->
                                       RMul(MAt(q, i, k), RDiv(MAt(q, j, k), At(s, k)))], i))
         IN  IF RLe(sum, R(0))
             THEN [err |-> LPC_ERROR_SINGULAR_MATRIX, q |-> q, s |-> s, n |-> i]
             ELSE CholeskyColumns(Amat, dim, i + 1,
                     [r \in 1..Len(q) |-> [cc \in 1..Len(q[r]) |->
                         IF cc - 1 = i /\ r - 1 > i /\ r - 1 < dim THEN col(r - 1) ELSE q[r][cc]]],
                     Put(s, i, sum))

RECURSIVE CholeskyForward(_, _, _, _, _, _)
\* xvec[i] = (bvec[i] - sum_j Amat[i][j] xvec[j]) inv_diag[i] is t[i] * s[i]^(-1/2)
CholeskyForward(q, s, bvec, dim, i, t) ==
    IF i >= dim THEN t
    ELSE CholeskyForward(q, s, bvec, dim, i + 1,
            Put(t, i, RSub(At(bvec, i),
                           RSumTo([j \in 0..(i - 1) |->
                                      RMul(MAt(q, i, j), RDiv(At(t, j), At(s, j)))], i))))

RECURSIVE CholeskyBackward(_, _, _, _, _, _)
\* xvec[i] = (xvec[i] - sum_j Amat[j][i] xvec[j]) inv_diag[i], i from dim - 1 down
CholeskyBackward(q, s, t, dim, i, x) ==
    IF i < 0 THEN x
    ELSE CholeskyBackward(q, s, t, dim, i - 1,
            Put(x, i, RDiv(RSub(At(t, i),
                                RSumTo([m \in 0..(dim - i - 2) |->
                                           RMul(MAt(q, i + 1 + m, i), At(x, i + 1 + m))],
                                       dim - i - 1)),
                           At(s, i))))

\* LPC_CholeskyDecomposition(Amat, dim, xvec, bvec, inv_diag): [err, Amat,
\* xvec, inv_diag].  A matrix or vector holding a NaN or an infinity makes
\* every sum NaN, which passes the sum <= 0.0 test.
LPC_CholeskyDecomposition(Amat, dim, xvec, bvec, inv_diag) ==
    IF \E i \in 0..(dim - 1) :
          ~IsFinite(At(bvec, i)) \/ \E j \in 0..(dim - 1) : ~IsFinite(MAt(Amat, i, j))
    THEN [err |-> LPC_ERROR_OK,
          Amat |-> [r \in 1..Len(Amat) |-> [cc \in 1..Len(Amat[r]) |->
                       IF r <= dim /\ cc < r THEN NaN ELSE Amat[r][cc]]],
          xvec |-> SetFirst(xvec, dim, NaN),
          inv_diag |-> SetFirst(inv_diag, dim, NaN)]
    ELSE With(CholeskyColumns(Amat, dim, 0,
                              [r \in 1..Len(Amat) |-> [cc \in 1..Len(Amat[r]) |-> R(0)]],
                              Fill(Len(Amat), R(1))), LAMBDA f :
         With(CholeskyForward(f.q, f.s, bvec, dim, 0, Fill(Len(Amat), R(0))), LAMBDA t :
         With(CholeskyBackward(f.q, f.s, t, dim, dim - 1, Fill(Len(Amat), R(0))), LAMBDA x :
             [err |-> f.err,
              Amat |-> [r \in 1..Len(Amat) |-> [cc \in 1..Len(Amat[r]) |->
                           IF cc - 1 < f.n /\ r > cc /\ r <= dim
                           THEN Rsqrt(f.q[r][cc], f.s[cc]) ELSE Amat[r][cc]]],
              xvec |-> IF f.err = LPC_ERROR_OK THEN CopyInto(xvec, 0, x, 0, dim) ELSE xvec,
              inv_diag |-> [i \in 1..Len(inv_diag) |->
                               IF i - 1 < f.n THEN Rsqrt(R(1), f.s[i]) ELSE inv_diag[i]]])))

\* LPCAF_CalculateCoefMatrixAndVector (the forward-residual variant that is
\* compiled): [r_mat, r_vec, obj_value]
LPCAF_CalculateCoefMatrixAndVector(data, num_samples, a_vec, r_mat, r_vec, coef_order) ==
    LET cnt == num_samples - coef_order
        residual(smpl) ==
            RAbs(RAdd(At(data, smpl),
                      RSumTo([i \in 0..(coef_order - 1) |->
                                 RMul(At(a_vec, i), At(data, smpl - i - 1))], coef_order)))
        inv_residual(smpl) ==
            RInv(IF IsFinite(residual(smpl))
                    /\ BelowInv(residual(smpl), LPCAF_RESIDUAL_EPSILON[2])
                 THEN LPCAF_RESIDUAL_EPSILON ELSE residual(smpl))
        vec(i) == RNeg(RSumTo([n \in 0..(cnt - 1) |->
                      RMul(RMul(At(data, coef_order + n), At(data, coef_order + n - i - 1)),
                           inv_residual(coef_order + n))], cnt))
        mat(i, j) == RSumTo([n \in 0..(cnt - 1) |->
                      RMul(RMul(At(data, coef_order + n - i - 1),
                                At(data, coef_order + n - j - 1)),
                           inv_residual(coef_order + n))], cnt)
    IN  [r_vec |-> [i \in 1..Len(r_vec) |-> IF i <= coef_order THEN vec(i - 1) ELSE r_vec[i]],
         r_mat |-> [r \in 1..Len(r_mat) |-> [cc \in 1..Len(r_mat[r]) |->
                       IF r <= coef_order /\ cc <= coef_order
                       THEN (IF r <= cc THEN mat(r - 1, cc - 1) ELSE mat(cc - 1, r - 1))
                       ELSE r_mat[r][cc]]],
         obj_value |-> RDiv(RSumTo([n \in 0..(cnt - 1) |-> residual(coef_order + n)], cnt),
                            R(cnt))]

RECURSIVE AFIterate(_, _, _, _, _, _, _)
\* for (itr = 0; itr < max_num_iteration; itr++), c.a_vec the current solution
AFIterate(c, data, num_samples, coef_order, max_num_iteration, itr, prev_obj_value) ==
    IF itr >= max_num_iteration
    THEN [err |-> LPC_ERROR_OK,
          lpcc |-> [c EXCEPT !.lpc_coef = CopyInto(@, 0, c.a_vec, 0, coef_order)]]
    ELSE With(LPCAF_CalculateCoefMatrixAndVector(
                  data, num_samples, c.a_vec, c.r_mat, c.u_vec, coef_order), LAMBDA m :
         With(LPC_CholeskyDecomposition(m.r_mat, coef_order, c.a_vec, m.r_vec, c.v_vec),
              LAMBDA ch :
         With([c EXCEPT !.r_mat = ch.Amat, !.u_vec = m.r_vec,
                        !.a_vec = ch.xvec, !.v_vec = ch.inv_diag], LAMBDA c1 :
         With(RAbs(RSub(prev_obj_value, m.obj_value)), LAMBDA diff :
             IF ch.err = LPC_ERROR_SINGULAR_MATRIX
             THEN [err |-> LPC_ERROR_OK,
                   lpcc |-> [c1 EXCEPT !.lpc_coef = SetFirst(@, coef_order, R(0))]]
             ELSE IF IsFinite(diff) /\ BelowInv(diff, AFObjEpsilon[2])
             THEN [err |-> LPC_ERROR_OK,
                   lpcc |-> [c1 EXCEPT !.lpc_coef = CopyInto(@, 0, c1.a_vec, 0, coef_order)]]
             ELSE AFIterate(c1, data, num_samples, coef_order, max_num_iteration,
                            itr + 1, m.obj_value)))))

\* LPC_CalculateCoefAF: [err, lpcc, oob]
LPC_CalculateCoefAF(c, data, num_samples, coef_order, max_num_iteration, window_type, ovf) ==
    With(LPC_CalculateCoef(c, data, num_samples, coef_order, window_type, ovf), LAMBDA ld :
        IF ld.err # LPC_ERROR_OK THEN ld
        ELSE
    With([ld.lpcc EXCEPT !.a_vec = CopyInto(@, 0, ld.lpcc.lpc_coef, 1, coef_order)],
         LAMBDA c1 :
        IF AbsBelow(At(c1.auto_corr, 0), FLT_EPSILON)
        THEN [err |-> LPC_ERROR_OK,
              lpcc |-> [c1 EXCEPT !.lpc_coef = SetFirst(@, coef_order + 1, R(0))],
              oob |-> ld.oob]
        ELSE With(AFIterate(c1, data, num_samples, coef_order, max_num_iteration, 0, FLT_MAX),
                  LAMBDA it : [err |-> it.err, lpcc |-> it.lpcc, oob |-> ld.oob])))

\* LPCCalculator_CalculateLPCCoefficientsAF
LPCCalculator_CalculateLPCCoefficientsAF(c, data, num_samples, coef, coef_order, max_num_iteration, window_type, ovf) ==
    IF coef_order > c.max_order
    THEN CalcResult(LPC_APIRESULT_EXCEED_MAX_ORDER, c, coef, FALSE)
    ELSE With(LPC_CalculateCoefAF(c, data, num_samples, coef_order,
                                  max_num_iteration, window_type, ovf), LAMBDA r :
             IF r.err # LPC_ERROR_OK
             THEN CalcResult(ApiStatusOf(r.err), r.lpcc, coef, r.oob)
             ELSE CalcResult(LPC_APIRESULT_OK, r.lpcc,
                             CopyInto(coef, 0, r.lpcc.lpc_coef, 0, coef_order), r.oob))

RECURSIVE BurgCovariance(_, _, _, _, _)
\* for (i = 0; i <= coef_order; i++): row i of cov from column i on is the
\* autocorrelation of the first num_samples - i samples, mirrored into column i
BurgCovariance(cov, data, num_samples, coef_order, i) ==
    IF i > coef_order THEN [err |-> LPC_ERROR_OK, cov |-> cov]
    ELSE With(At(cov, i), LAMBDA row :
         With(LPC_CalculateAutoCorrelation(
                  data, num_samples - i, SubSeq(row, i + 1, Len(row)), coef_order + 1 - i),
              LAMBDA ac :
         With([cc \in 1..Len(row) |-> IF cc - 1 >= i THEN ac.auto_corr[cc - i] ELSE row[cc]],
              LAMBDA row1 :
             IF ac.err # LPC_ERROR_OK THEN [err |-> ac.err, cov |-> cov]
             ELSE BurgCovariance(
                      [r \in 1..Len(cov) |->
                          IF r - 1 = i THEN row1
                          ELSE IF r - 1 > i /\ r - 1 <= coef_order THEN Put(cov[r], i, row1[r])
                          ELSE cov[r]],
                      data, num_samples, coef_order, i + 1))))

\* mu with the backward energy left out of the denominator: -2.0 * Ck / Fk
BurgMuForwardOnly(a_vec, cov, k) ==
    LET Fk == RSumTo([i \in 0..k |->
                  RSumTo([j \in 0..k |->
                      RMul(RMul(At(a_vec, i), At(a_vec, j)), MAt(cov, i, j))], k + 1)], k + 1)
        Ck == RSumTo([i \in 0..k |->
                  RSumTo([j \in 0..k |->
                      RMul(RMul(At(a_vec, i), At(a_vec, j)),
                           MAt(cov, i, k + 1 - j))], k + 1)], k + 1)
    IN  RDiv(RMul(R(-2), Ck), Fk)

\* the reflection coefficient of order k + 1: mu = -2.0 * Ck / FkpBk
BurgMu(a_vec, cov, k) ==
    LET diag == RSumTo([i \in 0..k |->
                    RMul(RMul(At(a_vec, i), At(a_vec, i)),
                         RAdd(MAt(cov, i, i), MAt(cov, k + 1 - i, k + 1 - i)))], k + 1)
        sum == RSumTo([i \in 0..k |->
                    RSumTo([m \in 0..(k - i - 1) |->
                        RMul(RMul(At(a_vec, i), At(a_vec, i + 1 + m)),
                             RAdd(MAt(cov, i, i + 1 + m),
                                  MAt(cov, k + 1 - i, k - i - m)))], k - i)], k + 1)
        FkpBk == RAdd(diag, RMul(R(2), sum))
        Ck == RSumTo([i \in 0..k |->
                    RSumTo([j \in 0..k |->
                        RMul(RMul(At(a_vec, i), At(a_vec, j)),
                             MAt(cov, i, k + 1 - j))], k + 1)], k + 1)
    IN  RDiv(RMul(R(-2), Ck), FkpBk)

RECURSIVE BurgLoop(_, _, _, _)
\* for (k = 0; k < coef_order; k++)
BurgLoop(a_vec, cov, coef_order, k) ==
    IF k >= coef_order THEN [err |-> LPC_ERROR_OK, a_vec |-> a_vec]
    ELSE With(BurgMu(a_vec, cov, k), LAMBDA mu :
             IF ~RLe(RAbs(mu), R(1))
             THEN [err |-> LPC_ASSERTION_FAILED, a_vec |-> a_vec]
             ELSE BurgLoop([i \in 1..Len(a_vec) |->
                               IF i - 1 <= k + 1
                               THEN RAdd(a_vec[i], RMul(mu, At(a_vec, k + 1 - (i - 1))))
                               ELSE a_vec[i]],
                           cov, coef_order, k + 1))

\* LPC_CalculateCoefBurg: [err, lpcc]
LPC_CalculateCoefBurg(c, data, num_samples, coef_order) ==
    With(BurgCovariance(c.r_mat, data, num_samples, coef_order, 0), LAMBDA cv :
        IF cv.err # LPC_ERROR_OK THEN [err |-> cv.err, lpcc |-> [c EXCEPT !.r_mat = cv.cov]]
        ELSE
    With(BurgLoop(Put(SetFirst(c.a_vec, coef_order + 1, R(0)), 0, R(1)),
                  cv.cov, coef_order, 0), LAMBDA lp :
    With([c EXCEPT !.r_mat = cv.cov, !.a_vec = lp.a_vec], LAMBDA c1 :
        IF lp.err # LPC_ERROR_OK THEN [err |-> lp.err, lpcc |-> c1]
        ELSE [err |-> LPC_ERROR_OK,
              lpcc |-> [c1 EXCEPT !.lpc_coef = CopyInto(@, 0, lp.a_vec, 1, coef_order)]])))

\* LPCCalculator_CalculateLPCCoefficientsBurg
LPCCalculator_CalculateLPCCoefficientsBurg(c, data, num_samples, coef, coef_order) ==
    IF coef_order > c.max_order
    THEN CalcResult(LPC_APIRESULT_EXCEED_MAX_ORDER, c, coef, FALSE)
    ELSE With(LPC_CalculateCoefBurg(c, data, num_samples, coef_order), LAMBDA r :
             IF r.err # LPC_ERROR_OK
             THEN CalcResult(ApiStatusOf(r.err), r.lpcc, coef, FALSE)
             ELSE CalcResult(LPC_APIRESULT_OK, r.lpcc,
                             CopyInto(coef, 0, r.lpcc.lpc_coef, 0, coef_order), FALSE))

\* LPCCalculator_Create: the arrays hold whatever the work area held (g)
LPCCalculator_Create(max_order, max_num_samples, g) ==
    [max_order |-> max_order,
     max_num_buffer_samples |-> max_num_samples,
     a_vec |-> Fill(max_order + 2, g),
     u_vec |-> Fill(max_order + 2, g),
     v_vec |-> Fill(max_order + 2, g),
     r_mat |-> Fill(max_order + 1, Fill(max_order + 1, g)),
     auto_corr |-> Fill(max_order + 1, g),
     lpc_coef |-> Fill(max_order + 1, g),
     parcor_coef |-> Fill(max_order + 1, g),
     buffer |-> Fill(max_num_samples, g)]

MaxOrder == 2
MaxNumSamples == 3
\* sample values of the analysed blocks
DataVals == {R(-1), R(0), R(1)}
\* what a work area holds before its first use
ScratchVals == {R(0), R(1)}
\* blocks of up to one sample more than the calculators take
CallData == SeqsUpTo(DataVals, MaxNumSamples + 1)
\* orders up to one more than the calculators take
CallOrders == 0..(MaxOrder + 1)
\* the block of the earlier call that gives calculator A a history
EarlierData == {Fill(MaxNumSamples, v) : v \in DataVals \ {R(0)}}

\* the iteration counts tried for a call: the refinement loop is entered once,
\* for orders up to 1 on blocks the signal buffer holds; beyond that the normal
\* equations carry products of 1 / LPCAF_RESIDUAL_EPSILON that leave TLC's
\* integers
AFIterations(coef_order, num_samples) ==
    IF coef_order <= 1 /\ num_samples <= MaxNumSamples THEN {0, 1} ELSE {0}

\* how the stores behind a buffer of max samples end for a block of n samples
OverflowOutcomes(max, n) == IF n > max THEN {"kept", "fault"} ELSE {"kept"}

Outcome(r) == [status |-> r.status, coef |-> r.coef, oob |-> r.oob]

InitCalc ==
    /\ \E gA \in ScratchVals : lpcc = LPCCalculator_Create(MaxOrder, MaxNumSamples, gA)
    /\ \E gB \in ScratchVals : lpccB = LPCCalculator_Create(MaxOrder, MaxNumSamples, gB)
    /\ call = <<>>
    /\ ret = <<>>
    /\ retB = <<>>
    /\ cPc = "created"

\* an earlier analysis on calculator A alone
EarlierAnalysis ==
    /\ cPc = "created"
    /\ \E data \in EarlierData, j \in JunkVals :
          lpcc' = LPCCalculator_CalculateLPCCoefficients(
                      lpcc, data, Len(data), Fill(MaxOrder, R(j)), MaxOrder,
                      LPC_WINDOWTYPE_RECTANGULAR, "kept").lpcc
    /\ cPc' = "warmed"
    /\ UNCHANGED <<lpccB, call, ret, retB>>

\* LPCCalculator_CalculateLPCCoefficients with the same arguments on both calculators
CalculateLPCCoefficients ==
    /\ cPc \in {"created", "warmed"}
    /\ \E data \in CallData, coef_order \in CallOrders, window_type \in WindowTypes,
          j \in JunkVals :
          \E coef \in {Fill(coef_order, R(j))} :
          \E a \in {LPCCalculator_CalculateLPCCoefficients(
                       lpcc, data, Len(data), coef, coef_order, window_type, "kept")},
             b \in {LPCCalculator_CalculateLPCCoefficients(
                       lpccB, data, Len(data), coef, coef_order, window_type, "kept")} :
              /\ call' = [api |-> "LD", data |-> data, num_samples |-> Len(data),
                          coef |-> coef, coef_order |-> coef_order,
                          max_num_iteration |-> 0, window_type |-> window_type]
              /\ lpcc' = a.lpcc /\ ret' = Outcome(a)
              /\ lpccB' = b.lpcc /\ retB' = Outcome(b)
    /\ cPc' = "called"

\* LPCCalculator_CalculateLPCCoefficientsAF with the same arguments on both calculators
CalculateLPCCoefficientsAF ==
    /\ cPc \in {"created", "warmed"}
    /\ \E data \in CallData, coef_order \in CallOrders, window_type \in WindowTypes,
          j \in JunkVals :
        \E max_num_iteration \in AFIterations(coef_order, Len(data)),
           ovf \in OverflowOutcomes(lpcc.max_num_buffer_samples, Len(data)) :
          \E coef \in {Fill(coef_order, R(j))} :
          \E a \in {LPCCalculator_CalculateLPCCoefficientsAF(
                       lpcc, data, Len(data), coef, coef_order,
                       max_num_iteration, window_type, ovf)},
             b \in {LPCCalculator_CalculateLPCCoefficientsAF(
                       lpccB, data, Len(data), coef, coef_order,
                       max_num_iteration, window_type, ovf)} :
              /\ call' = [api |-> "AF", data |-> data, num_samples |-> Len(data),
                          coef |-> coef, coef_order |-> coef_order,
                          max_num_iteration |-> max_num_iteration,
                          window_type |-> window_type]
              /\ lpcc' = a.lpcc /\ ret' = Outcome(a)
              /\ lpccB' = b.lpcc /\ retB' = Outcome(b)
    /\ cPc' = "called"

\* LPCCalculator_CalculateLPCCoefficientsBurg with the same arguments on both calculators
CalculateLPCCoefficientsBurg ==
    /\ cPc \in {"created", "warmed"}
    /\ \E data \in CallData, coef_order \in CallOrders, j \in JunkVals :
          \E coef \in {Fill(coef_order, R(j))} :
          \E a \in {LPCCalculator_CalculateLPCCoefficientsBurg(
                       lpcc, data, Len(data), coef, coef_order)},
             b \in {LPCCalculator_CalculateLPCCoefficientsBurg(
                       lpccB, data, Len(data), coef, coef_order)} :
              /\ call' = [api |-> "Burg", data |-> data, num_samples |-> Len(data),
                          coef |-> coef, coef_order |-> coef_order,
                          max_num_iteration |-> 0,
                          window_type |-> LPC_WINDOWTYPE_RECTANGULAR]
              /\ lpcc' = a.lpcc /\ ret' = Outcome(a)
              /\ lpccB' = b.lpcc /\ retB' = Outcome(b)
    /\ cPc' = "called"

(***************************************************************************)
(* M/S stereo transform (linne_utility.c).                                 *)
(***************************************************************************)
\* longest channel handed to the M/S transform (besides the literal example)
MaxChanLen == 2
\* channel sample values: both extremes, so that R - L wraps, and small ones
MSVals == {INT32_MIN, -3, 0, 4, INT32_MAX}
\* the example of the specification: L = [10, -3, 7], R = [4, -3, 9]
MSExample == << <<10, -3, 7>>, <<4, -3, 9>> >>

RECURSIVE MSLoopTruncating(_, _)
\* the forward transform with buffer[1][smpl] / 2 (rounding toward zero) for >> 1
MSLoopTruncating(buffer, smpl) ==
    IF smpl >= Len(buffer[1]) THEN buffer
    ELSE LET b1 == Put(buffer[2], smpl, SubW(At(buffer[2], smpl), At(buffer[1], smpl)))
             s == At(b1, smpl)
             half == IF s = INT32_MIN THEN -(2 ^ 30)
                     ELSE IF s < 0 THEN -((-s) \div 2)
                     ELSE s \div 2
             b0 == Put(buffer[1], smpl, AddW(At(buffer[1], smpl), half))
         IN  MSLoopTruncating(<<b0, b1>>, smpl + 1)

RECURSIVE MSLoop(_, _)
\* for (smpl = 0; smpl < num_samples; smpl++) {
\*     buffer[1][smpl] -= buffer[0][smpl];
\*     buffer[0][smpl] += (buffer[1][smpl] >> 1); }
MSLoop(buffer, smpl) ==
    IF smpl >= Len(buffer[1]) THEN buffer
    ELSE LET b1 == Put(buffer[2], smpl, SubW(At(buffer[2], smpl), At(buffer[1], smpl)))
             b0 == Put(buffer[1], smpl, AddW(At(buffer[1], smpl), Sar(At(b1, smpl), 1)))
         IN  MSLoop(<<b0, b1>>, smpl + 1)

\* LINNEUtility_MSConversion(buffer, num_samples = Len(buffer[0]))
LINNEUtility_MSConversion(buffer) == MSLoop(buffer, 0)

RECURSIVE LRLoopSwapped(_, _)
\* the inverse with its two statements in the other order
LRLoopSwapped(buffer, smpl) ==
    IF smpl >= Len(buffer[1]) THEN buffer
    ELSE LET b1 == Put(buffer[2], smpl, AddW(At(buffer[2], smpl), At(buffer[1], smpl)))
             b0 == Put(buffer[1], smpl, SubW(At(buffer[1], smpl), Sar(At(b1, smpl), 1)))
         IN  LRLoopSwapped(<<b0, b1>>, smpl + 1)

RECURSIVE LRLoop(_, _)
\* for (smpl = 0; smpl < num_samples; smpl++) {
\*     buffer[0][smpl] -= (buffer[1][smpl] >> 1);
\*     buffer[1][smpl] += buffer[0][smpl]; }
LRLoop(buffer, smpl) ==
    IF smpl >= Len(buffer[1]) THEN buffer
    ELSE LET b0 == Put(buffer[1], smpl, SubW(At(buffer[1], smpl), Sar(At(buffer[2], smpl), 1)))
             b1 == Put(buffer[2], smpl, AddW(At(buffer[2], smpl), At(b0, smpl)))
         IN  LRLoop(<<b0, b1>>, smpl + 1)

\* LINNEUtility_LRConversion(buffer, num_samples = Len(buffer[0]))
LINNEUtility_LRConversion(buffer) == LRLoop(buffer, 0)

\* the caller's two channels of equal length
InitMS ==
    /\ msIn \in {MSExample} \cup
                UNION { SeqsOfLen(MSVals, n) \X SeqsOfLen(MSVals, n) : n \in 0..MaxChanLen }
    /\ msBuf = msIn
    /\ msPc = "idle"

MSConversion ==
    /\ msPc = "idle"
    /\ msBuf' = LINNEUtility_MSConversion(msBuf)
    /\ msPc' = "ms"
    /\ UNCHANGED msIn

LRConversion ==
    /\ msPc = "ms"
    /\ msBuf' = LINNEUtility_LRConversion(msBuf)
    /\ msPc' = "lr"
    /\ UNCHANGED msIn

(***************************************************************************)
(* Preemphasis filter (linne_utility.c).  An encoder state filters each    *)
(* block forward, a decoder state filters the encoder's output back.       *)
(***************************************************************************)
\* Q-format of the coefficient (linne_internal.h)
LINNE_PREEMPHASIS_COEF_SHIFT == 5
\* blocks processed in one run
MaxBlocks == 2
\* longest block
MaxBlockLen == 2
\* block sample values: small ones of both signs, and both extremes
PreemVals == {INT32_MIN, -3, 5, INT32_MAX}
\* coefficient values of a block, over the Q-format's range
PreemCoefVals == {-(2 ^ (LINNE_PREEMPHASIS_COEF_SHIFT - 1)), -1, 0, 7,
                  2 ^ (LINNE_PREEMPHASIS_COEF_SHIFT - 1) - 1}
\* blocks hold at least one sample: Deemphasis reads buffer[0] unconditionally
PreemBlocks == SeqsUpTo(PreemVals, MaxBlockLen) \ {<<>>}

\* LINNEPreemphasisFilter_Initialize
LINNEPreemphasisFilter_Initialize == [prev |-> 0, coef |-> 0]

RECURSIVE PreemphasisLoop(_, _, _, _)
\* tmp = buffer[smpl];
\* buffer[smpl] -= (prev * preem->coef) >> LINNE_PREEMPHASIS_COEF_SHIFT;
\* prev = tmp;
PreemphasisLoop(coef, buffer, prev, smpl) ==
    IF smpl >= Len(buffer) THEN [buffer |-> buffer, prev |-> prev]
    ELSE LET tmp == At(buffer, smpl)
             out == SubW(tmp, Sar(MulW(prev, coef), LINNE_PREEMPHASIS_COEF_SHIFT))
         IN  PreemphasisLoop(coef, Put(buffer, smpl, out), tmp, smpl + 1)

\* LINNEPreemphasisFilter_Preemphasis(preem, buffer, num_samples = Len(buffer))
LINNEPreemphasisFilter_Preemphasis(preem, buffer) ==
    LET r == PreemphasisLoop(preem.coef, buffer, preem.prev, 0)
    IN  [preem |-> [preem EXCEPT !.prev = r.prev], buffer |-> r.buffer]

RECURSIVE DeemphasisLoop(_, _, _)
\* buffer[smpl] += (buffer[smpl - 1] * preem->coef) >> LINNE_PREEMPHASIS_COEF_SHIFT;
DeemphasisLoop(coef, buffer, smpl) ==
    IF smpl >= Len(buffer) THEN buffer
    ELSE LET out == AddW(At(buffer, smpl),
                         Sar(MulW(At(buffer, smpl - 1), coef), LINNE_PREEMPHASIS_COEF_SHIFT))
         IN  DeemphasisLoop(coef, Put(buffer, smpl, out), smpl + 1)

\* Deemphasis that does not carry the last sample over to the next block
LINNEPreemphasisFilter_DeemphasisNoCarry(preem, buffer) ==
    LET first == AddW(At(buffer, 0),
                      Sar(MulW(preem.prev, preem.coef), LINNE_PREEMPHASIS_COEF_SHIFT))
        done == DeemphasisLoop(preem.coef, Put(buffer, 0, first), 1)
    IN  [preem |-> preem, buffer |-> done]

\* LINNEPreemphasisFilter_Deemphasis(preem, buffer, num_samples = Len(buffer) >= 1)
LINNEPreemphasisFilter_Deemphasis(preem, buffer) ==
    LET first == AddW(At(buffer, 0),
                      Sar(MulW(preem.prev, preem.coef), LINNE_PREEMPHASIS_COEF_SHIFT))
        done == DeemphasisLoop(preem.coef, Put(buffer, 0, first), 1)
    IN  [preem |-> [preem EXCEPT !.prev = At(done, Len(done) - 1)], buffer |-> done]

\* longest block handed to LINNEPreemphasisFilter_CalculateCoefficient
MaxCoefBlockLen == 3
\* filter operations in one run
MaxFilterOps == 3
\* sample values of the blocks the coefficient is calculated from: every
\* sample but the last is small, the last may be large, so that the two
\* correlation sums stay exact
CoefSmallVals == {-2, 0, 1, 3}
CoefLastVals == CoefSmallVals \cup {2 ^ 26 - 1, 2 ^ 26, -(2 ^ 26), 2 ^ 29}
\* blocks of at least two samples
CoefBlocks ==
    { Append(head, last) : head \in SeqsUpTo(CoefSmallVals, MaxCoefBlockLen - 1) \ {<<>>},
                           last \in CoefLastVals }

RECURSIVE CoefCorrLoop(_, _, _, _)
\* const double succ = buffer[smpl + 1];
\* corr[0] += curr * curr; corr[1] += curr * succ; curr = succ;
CoefCorrLoop(buffer, smpl, curr, corr) ==
    IF smpl >= Len(buffer) - 1 THEN corr
    ELSE CoefCorrLoop(buffer, smpl + 1, At(buffer, smpl + 1),
                      <<RAdd(corr[1], R(curr * curr)),
                        RAdd(corr[2], R(curr * At(buffer, smpl + 1)))>>)

\* corr[0] and corr[1] after the loop and corr[1] /= corr[0]
CoefCorrelation(buffer) ==
    With(CoefCorrLoop(buffer, 0, At(buffer, 0), <<R(0), R(0)>>),
         LAMBDA corr : <<corr[1], RDiv(corr[2], corr[1])>>)

\* LINNEUtility_Round(x * pow(2.0f, LINNE_PREEMPHASIS_COEF_SHIFT)) of a finite
\* x >= 0, as hi * 2^SHIFT + lo: hi is floor(x), lo the rounded fraction
CoefScaledRound(x) ==
    [hi |-> Floor(x),
     lo |-> LPC_Round(RMul(RSub(x, R(Floor(x))), Pow2(LINNE_PREEMPHASIS_COEF_SHIFT)))]

\* the rounded value is an int32_t
CoefCastInRange(r) ==
    \/ r.hi < 2 ^ (31 - LINNE_PREEMPHASIS_COEF_SHIFT) - 1
    \/ /\ r.hi = 2 ^ (31 - LINNE_PREEMPHASIS_COEF_SHIFT) - 1
       /\ r.lo < 2 ^ LINNE_PREEMPHASIS_COEF_SHIFT

\* (int32_t) of a double outside the int32_t range is undefined: conversion
\* instructions give INT32_MIN or saturate
CoefCastOutOfRange == {INT32_MIN, INT32_MAX}

\* if (coef >= (1 << (SHIFT - 1))) coef = (1 << (SHIFT - 1)) - 1;
CoefClamp(coef) ==
    IF coef >= 2 ^ (LINNE_PREEMPHASIS_COEF_SHIFT - 1)
        THEN 2 ^ (LINNE_PREEMPHASIS_COEF_SHIFT - 1) - 1
        ELSE coef

\* the values LINNEPreemphasisFilter_CalculateCoefficient can store in
\* preem->coef for a block of num_samples = Len(buffer) >= 2
CalculateCoefficientValues(buffer) ==
    With(CoefCorrelation(buffer),
         LAMBDA corr :
            IF RLt(corr[1], <<1, 1000000>>) \/ RLt(corr[2], R(0)) THEN {0}
            ELSE With(CoefScaledRound(corr[2]),
                      LAMBDA r :
                         IF CoefCastInRange(r)
                             THEN {CoefClamp(r.hi * 2 ^ LINNE_PREEMPHASIS_COEF_SHIFT + r.lo)}
                             ELSE {CoefClamp(c) : c \in CoefCastOutOfRange}))

InitPreem ==
    /\ enc = LINNEPreemphasisFilter_Initialize
    /\ dec = LINNEPreemphasisFilter_Initialize
    /\ blkIn = <<>> /\ blkEnc = <<>> /\ blkDec = <<>>
    /\ nBlocks = 0
    /\ prPc = "idle"

\* the encoder takes the block's coefficient and filters the block
Encode ==
    /\ prPc = "idle"
    /\ nBlocks < MaxBlocks
    /\ \E b \in PreemBlocks, c \in PreemCoefVals :
          LET r == LINNEPreemphasisFilter_Preemphasis([enc EXCEPT !.coef = c], b)
          IN  /\ enc' = r.preem
              /\ blkIn' = b
              /\ blkEnc' = r.buffer
    /\ blkDec' = <<>>
    /\ prPc' = "encoded"
    /\ UNCHANGED <<dec, nBlocks>>

\* the decoder takes the same coefficient and filters the encoder's output back
Decode ==
    /\ prPc = "encoded"
    /\ LET r == LINNEPreemphasisFilter_Deemphasis([dec EXCEPT !.coef = enc.coef], blkEnc)
       IN  /\ dec' = r.preem
           /\ blkDec' = r.buffer
    /\ nBlocks' = nBlocks + 1
    /\ prPc' = "idle"
    /\ UNCHANGED <<enc, blkIn, blkEnc>>

\* LINNEPreemphasisFilter_Initialize on the filter
FilterInitialize ==
    /\ nBlocks < MaxFilterOps
    /\ enc' = LINNEPreemphasisFilter_Initialize
    /\ blkIn' = <<>> /\ blkEnc' = <<>>
    /\ nBlocks' = nBlocks + 1
    /\ prPc' = "initialized"
    /\ UNCHANGED <<dec, blkDec>>

\* LINNEPreemphasisFilter_CalculateCoefficient on the filter and a block
FilterCalculateCoefficient ==
    /\ nBlocks < MaxFilterOps
    /\ \E b \in CoefBlocks :
          \E coef \in CalculateCoefficientValues(b) :
              /\ enc' = [enc EXCEPT !.coef = coef]
              /\ blkIn' = b
              /\ blkEnc' = b
    /\ nBlocks' = nBlocks + 1
    /\ prPc' = "calculated"
    /\ UNCHANGED <<dec, blkDec>>

\* LINNEPreemphasisFilter_Preemphasis on the filter and a block
FilterPreemphasis ==
    /\ nBlocks < MaxFilterOps
    /\ \E b \in PreemBlocks :
          \E r \in {LINNEPreemphasisFilter_Preemphasis(enc, b)} :
              /\ enc' = r.preem
              /\ blkIn' = b
              /\ blkEnc' = r.buffer
    /\ nBlocks' = nBlocks + 1
    /\ prPc' = "preemphasized"
    /\ UNCHANGED <<dec, blkDec>>

\* LINNEPreemphasisFilter_Deemphasis on the filter and a block
FilterDeemphasis ==
    /\ nBlocks < MaxFilterOps
    /\ \E b \in PreemBlocks :
          \E r \in {LINNEPreemphasisFilter_Deemphasis(enc, b)} :
              /\ enc' = r.preem
              /\ blkIn' = b
              /\ blkEnc' = r.buffer
    /\ nBlocks' = nBlocks + 1
    /\ prPc' = "deemphasized"
    /\ UNCHANGED <<dec, blkDec>>

(***************************************************************************)
(* Bit utilities (linne_utility.c).  A uint32_t is kept as its 32-bit      *)
(* pattern: u < 2^31 as u itself, u >= 2^31 as u - 2^32.                   *)
(***************************************************************************)
\* the inputs 0..MaxSmallVal are all tried
MaxSmallVal == 40
\* the uint32_t 2^31
U2P31 == INT32_MIN

\* x >> k on uint32_t (logical shift), 1 <= k <= 30
ShrU(x, k) ==
    IF x >= 0 THEN x \div (2 ^ k)
    ELSE ((x - INT32_MIN) \div (2 ^ k)) + 2 ^ (31 - k)

\* bit i (0..30) of the pattern x
BitAt(x, i) == (x \div (2 ^ i)) % 2

RECURSIVE OrLow(_, _, _, _)
\* bits lo .. lo+n-1 (within 0..30) of a | b
OrLow(a, b, lo, n) ==
    IF n = 1 THEN (IF BitAt(a, lo) = 1 \/ BitAt(b, lo) = 1 THEN 2 ^ lo ELSE 0)
    ELSE OrLow(a, b, lo, n \div 2) + OrLow(a, b, lo + (n \div 2), n - (n \div 2))

\* a | b on 32-bit patterns
OrW(a, b) == OrLow(a, b, 0, 31) + (IF a < 0 \/ b < 0 THEN INT32_MIN ELSE 0)

\* LINNEUtility_RoundUp2PoweredSoft(val)
LINNEUtility_RoundUp2PoweredSoft(val) ==
    LET v0 == AddW(val, -1)            \* val--;
        v1 == OrW(v0, ShrU(v0, 1))     \* val |= val >> 1;
        v2 == OrW(v1, ShrU(v1, 2))     \* val |= val >> 2;
        v3 == OrW(v2, ShrU(v2, 4))     \* val |= val >> 4;
        v4 == OrW(v3, ShrU(v3, 8))     \* val |= val >> 8;
        v5 == OrW(v4, ShrU(v4, 16))    \* val |= val >> 16;
    IN  AddW(v5, 1)                    \* return val + 1;

\* arguments: every small value, the neighbourhood of every power of two, and
\* the largest uint32_t values
UtilVals ==
    (0..MaxSmallVal)
    \cup { 2 ^ k + d : k \in 6..30, d \in {-1, 0, 1} }
    \cup { INT32_MAX, U2P31, U2P31 + 1, -1 }

InitUtil == uIn \in UtilVals /\ uOut = 0 /\ uPc = "idle"

RoundUp2Powered ==
    /\ uPc = "idle"
    /\ uOut' = LINNEUtility_RoundUp2PoweredSoft(uIn)
    /\ uPc' = "done"
    /\ UNCHANGED uIn

(***************************************************************************)
(* LINNEUtility_CalculateCRC16.                                            *)
(***************************************************************************)
\* a ^ b on uint16_t
Xor16(a, b) ==
    LET bit(i) == ((a \div (2 ^ i)) + (b \div (2 ^ i))) % 2
    IN  bit(0) + 2 * bit(1) + 4 * bit(2) + 8 * bit(3)
        + 16 * bit(4) + 32 * bit(5) + 64 * bit(6) + 128 * bit(7)
        + 256 * bit(8) + 512 * bit(9) + 1024 * bit(10) + 2048 * bit(11)
        + 4096 * bit(12) + 8192 * bit(13) + 16384 * bit(14) + 32768 * bit(15)

st_crc16_ibm_byte_table == <<
        0, 49345, 49537,   320, 49921,   960,   640, 49729,
    50689,  1728,  1920, 51009,  1280, 50625, 50305,  1088,
    52225,  3264,  3456, 52545,  3840, 53185, 52865,  3648,
     2560, 51905, 52097,  2880, 51457,  2496,  2176, 51265,
    55297,  6336,  6528, 55617,  6912, 56257, 55937,  6720,
     7680, 57025, 57217,  8000, 56577,  7616,  7296, 56385,
     5120, 54465, 54657,  5440, 55041,  6080,  5760, 54849,
    53761,  4800,  4992, 54081,  4352, 53697, 53377,  4160,
    61441, 12480, 12672, 61761, 13056, 62401, 62081, 12864,
    13824, 63169, 63361, 14144, 62721, 13760, 13440, 62529,
    15360, 64705, 64897, 15680, 65281, 16320, 16000, 65089,
    64001, 15040, 15232, 64321, 14592, 63937, 63617, 14400,
    10240, 59585, 59777, 10560, 60161, 11200, 10880, 59969,
    60929, 11968, 12160, 61249, 11520, 60865, 60545, 11328,
    58369,  9408,  9600, 58689,  9984, 59329, 59009,  9792,
     8704, 58049, 58241,  9024, 57601,  8640,  8320, 57409,
    40961, 24768, 24960, 41281, 25344, 41921, 41601, 25152,
    26112, 42689, 42881, 26432, 42241, 26048, 25728, 42049,
    27648, 44225, 44417, 27968, 44801, 28608, 28288, 44609,
    43521, 27328, 27520, 43841, 26880, 43457, 43137, 26688,
    30720, 47297, 47489, 31040, 47873, 31680, 31360, 47681,
    48641, 32448, 32640, 48961, 32000, 48577, 48257, 31808,
    46081, 29888, 30080, 46401, 30464, 47041, 46721, 30272,
    29184, 45761, 45953, 29504, 45313, 29120, 28800, 45121,
    20480, 37057, 37249, 20800, 37633, 21440, 21120, 37441,
    38401, 22208, 22400, 38721, 21760, 38337, 38017, 21568,
    39937, 23744, 23936, 40257, 24320, 40897, 40577, 24128,
    23040, 39617, 39809, 23360, 39169, 22976, 22656, 38977,
    34817, 18624, 18816, 35137, 19200, 35777, 35457, 19008,
    19968, 36545, 36737, 20288, 36097, 19904, 19584, 35905,
    17408, 33985, 34177, 17728, 34561, 18368, 18048, 34369,
    33281, 17088, 17280, 33601, 16640, 33217, 32897, 16448 >>

\* the step without the shift: crc16 ^ table[(crc16 ^ byte) & 0xFF]
CRC16StepUnshifted(crc16, byte) ==
    Xor16(crc16, At(st_crc16_ibm_byte_table, Xor16(crc16, byte) % 256))

\* crc16 = (crc16 >> 8) ^ st_crc16_ibm_byte_table[(crc16 ^ (*data++)) & 0xFF];
CRC16Step(crc16, byte) ==
    Xor16(crc16 \div 256, At(st_crc16_ibm_byte_table, Xor16(crc16, byte) % 256))

RECURSIVE CRC16Loop(_, _, _)
\* while (data_size--)
CRC16Loop(data, pos, crc16) ==
    IF pos >= Len(data) THEN crc16
    ELSE CRC16Loop(data, pos + 1, CRC16Step(crc16, At(data, pos)))

\* LINNEUtility_CalculateCRC16(data, data_size), data_size = Len(data)
LINNEUtility_CalculateCRC16(data) == CRC16Loop(data, 0, 0)

\* the longest sequence whose bytes are all enumerated
MaxCrcLen == 2
\* the bytes of the enumerated sequences
CrcBytes == {0, 1, 49, 128, 255}
\* the ASCII bytes of "123456789"
CrcCheckString == <<49, 50, 51, 52, 53, 54, 55, 56, 57>>
\* every single byte, every sequence over CrcBytes, and the check string
CrcInputs ==
    SeqsUpTo(CrcBytes, MaxCrcLen) \cup { <<b>> : b \in 0..255 } \cup {CrcCheckString}

InitCrc == uIn \in CrcInputs /\ uOut = 0 /\ uPc = "idle"

CalculateCRC16 ==
    /\ uPc = "idle"
    /\ uOut' = LINNEUtility_CalculateCRC16(uIn)
    /\ uPc' = "crc"
    /\ UNCHANGED uIn

(***************************************************************************)
(* LPC_CalculateAutoCorrelation on its own (lpc.c).                        *)
(***************************************************************************)
\* the index pairs <<a, b>> of the products data[a] * data[b] that the loops
\* of lag `lag` >= 1 add to auto_corr[lag], in the order they are added: the
\* two products of each blocked term, then the remaining ones
AutoCorrelationPairs(num_samples, lag) ==
    LET lag2 == 2 * lag
        L == IF 3 * lag < num_samples THEN 1 + (num_samples - 3 * lag) \div lag2 ELSE 0
        Llag2 == L * lag2
        rest == num_samples - Llag2 - lag
        blocked(t) ==
            LET i == t \div (2 * L)
                l == ((t % (2 * L)) \div 2) * lag2
            IN  IF t % 2 = 0 THEN <<l + lag + i, l + i>> ELSE <<l + lag + i, l + lag2 + i>>
    IN  [t \in 1..(2 * lag * L + rest) |->
            IF t - 1 < 2 * lag * L THEN blocked(t - 1)
            ELSE <<Llag2 + lag + (t - 1 - 2 * lag * L), Llag2 + (t - 1 - 2 * lag * L)>>]

\* the longest block correlated
MaxCorrLen == 6
\* sample values
CorrVals == {R(-1), R(0), R(2)}
\* what auto_corr holds before the call
CorrJunk == R(-9)

InitAutoCorr ==
    /\ \E data \in SeqsUpTo(CorrVals, MaxCorrLen) :
          uIn \in [data : {data}, order : 0..(Len(data) + 1),
                   auto_corr : {Fill(MaxCorrLen + 1, CorrJunk)}]
    /\ uOut = 0
    /\ uPc = "idle"

\* LPC_CalculateAutoCorrelation(data, num_samples = Len(data), auto_corr, order)
CalculateAutoCorrelation ==
    /\ uPc = "idle"
    /\ uOut' = LPC_CalculateAutoCorrelation(uIn.data, Len(uIn.data), uIn.auto_corr, uIn.order)
    /\ uPc' = "autocorr"
    /\ UNCHANGED uIn

(***************************************************************************)
(* The subsystems a specification does not exercise stay as constructed.   *)
(***************************************************************************)
IdlePred ==
    /\ pData = <<>> /\ pCoef = <<>> /\ pShift = 0 /\ pResidual = <<>> /\ pSynth = <<>>
    /\ pStatus = "none" /\ sStatus = "none" /\ pOob = FALSE /\ pPc = "idle"
IdleMS == msIn = <<>> /\ msBuf = <<>> /\ msPc = "idle"
IdlePreem ==
    /\ enc = <<>> /\ dec = <<>> /\ blkIn = <<>> /\ blkEnc = <<>> /\ blkDec = <<>>
    /\ nBlocks = 0 /\ prPc = "idle"
IdleUtil == uIn = 0 /\ uOut = 0 /\ uPc = "idle"
IdleQuant == qIn = <<>> /\ qOut = <<>> /\ qPc = "idle"
IdleCalc ==
    /\ lpcc = <<>> /\ lpccB = <<>> /\ call = <<>> /\ ret = <<>> /\ retB = <<>>
    /\ cPc = "created"

(***************************************************************************)
(* SpecPred: LPC_Predict, then LPC_Synthesize in place on its residual.    *)
(***************************************************************************)
InitPredSpec == InitPred /\ IdleMS /\ IdlePreem /\ IdleUtil /\ IdleQuant /\ IdleCalc
NextPred ==
    \/ Predict /\ UNCHANGED <<msVars, preemVars, utilVars, quantVars, calcVars>>
    \/ Synthesize /\ UNCHANGED <<msVars, preemVars, utilVars, quantVars, calcVars>>
SpecPred == InitPredSpec /\ [][NextPred]_vars


(***************************************************************************)
(* SpecMS: the forward M/S transform, then the inverse, in place.          *)
(***************************************************************************)
InitMSSpec == InitMS /\ IdlePred /\ IdlePreem /\ IdleUtil /\ IdleQuant /\ IdleCalc
NextMS ==
    \/ MSConversion /\ UNCHANGED <<predVars, preemVars, utilVars, quantVars, calcVars>>
    \/ LRConversion /\ UNCHANGED <<predVars, preemVars, utilVars, quantVars, calcVars>>
SpecMS == InitMSSpec /\ [][NextMS]_vars

(***************************************************************************)
(* SpecPreem: blocks through the encoder's and the decoder's filter.       *)
(***************************************************************************)
InitPreemSpec == InitPreem /\ IdlePred /\ IdleMS /\ IdleUtil /\ IdleQuant /\ IdleCalc
NextPreem ==
    \/ Encode /\ UNCHANGED <<predVars, msVars, utilVars, quantVars, calcVars>>
    \/ Decode /\ UNCHANGED <<predVars, msVars, utilVars, quantVars, calcVars>>
SpecPreem == InitPreemSpec /\ [][NextPreem]_vars

(***************************************************************************)
(* SpecFilter: one filter under any sequence of its four operations.       *)
(***************************************************************************)
InitFilterSpec == InitPreem /\ IdlePred /\ IdleMS /\ IdleUtil /\ IdleQuant /\ IdleCalc
NextFilter ==
    \/ FilterInitialize /\ UNCHANGED <<predVars, msVars, utilVars, quantVars, calcVars>>
    \/ FilterCalculateCoefficient /\ UNCHANGED <<predVars, msVars, utilVars, quantVars, calcVars>>
    \/ FilterPreemphasis /\ UNCHANGED <<predVars, msVars, utilVars, quantVars, calcVars>>
    \/ FilterDeemphasis /\ UNCHANGED <<predVars, msVars, utilVars, quantVars, calcVars>>
SpecFilter == InitFilterSpec /\ [][NextFilter]_vars

(***************************************************************************)
(* SpecUtil: the bit utilities on their argument.                          *)
(***************************************************************************)
InitUtilSpec == InitUtil /\ IdlePred /\ IdleMS /\ IdlePreem /\ IdleQuant /\ IdleCalc
NextUtil ==
    \/ RoundUp2Powered /\ UNCHANGED <<predVars, msVars, preemVars, quantVars, calcVars>>
SpecUtil == InitUtilSpec /\ [][NextUtil]_vars

(***************************************************************************)
(* SpecQuant: one call of the coefficient quantizer.                       *)
(***************************************************************************)
InitQuantSpec == InitQuant /\ IdlePred /\ IdleMS /\ IdlePreem /\ IdleUtil /\ IdleCalc
NextQuant ==
    \/ QuantizeCoefficients /\ UNCHANGED <<predVars, msVars, preemVars, utilVars, calcVars>>
SpecQuant == InitQuantSpec /\ [][NextQuant]_vars

(***************************************************************************)
(* SpecCalc: two calculators of one configuration, an optional earlier     *)
(* analysis on the first, then one analysis call made on both.             *)
(***************************************************************************)
InitCalcSpec == InitCalc /\ IdlePred /\ IdleMS /\ IdlePreem /\ IdleUtil /\ IdleQuant
NextCalc ==
    \/ EarlierAnalysis /\ UNCHANGED <<predVars, msVars, preemVars, utilVars, quantVars>>
    \/ CalculateLPCCoefficients /\ UNCHANGED <<predVars, msVars, preemVars, utilVars, quantVars>>
    \/ CalculateLPCCoefficientsAF /\ UNCHANGED <<predVars, msVars, preemVars, utilVars, quantVars>>
    \/ CalculateLPCCoefficientsBurg /\ UNCHANGED <<predVars, msVars, preemVars, utilVars, quantVars>>
SpecCalc == InitCalcSpec /\ [][NextCalc]_vars


(***************************************************************************)
(* SpecCrc: the checksum of one byte sequence.                             *)
(***************************************************************************)
InitCrcSpec == InitCrc /\ IdlePred /\ IdleMS /\ IdlePreem /\ IdleQuant /\ IdleCalc
NextCrc ==
    \/ CalculateCRC16 /\ UNCHANGED <<predVars, msVars, preemVars, quantVars, calcVars>>
SpecCrc == InitCrcSpec /\ [][NextCrc]_vars

(***************************************************************************)
(* SpecAutoCorr: the autocorrelation of one block.                         *)
(***************************************************************************)
InitAutoCorrSpec == InitAutoCorr /\ IdlePred /\ IdleMS /\ IdlePreem /\ IdleQuant /\ IdleCalc
NextAutoCorr ==
    \/ CalculateAutoCorrelation /\ UNCHANGED <<predVars, msVars, preemVars, quantVars, calcVars>>
SpecAutoCorr == InitAutoCorrSpec /\ [][NextAutoCorr]_vars

(***************************************************************************)
(* Claims.                                                                 *)
(***************************************************************************)

\* C1: LPC_Predict followed by LPC_Synthesize in place on the residual, with
\* the same coefficients, order <= N and 1 <= shift <= 31, gives back the
\* signal at every index, also when the 32-bit accumulator wraps.
C1_PredictSynthesizeIdentity ==
    (pPc = "synthesized" /\ Len(pCoef) <= Len(pData) /\ pShift >= 1 /\ pShift <= 31)
        => /\ pStatus = LPC_APIRESULT_OK
           /\ sStatus = LPC_APIRESULT_OK
           /\ pSynth = pData

\* a round trip whose products wrap and whose residual differs from the signal
C1_Witness ==
    /\ pPc = "synthesized"
    /\ pShift = 1
    /\ pCoef = <<INT32_MAX, -3>>
    /\ pData = <<5, INT32_MAX, -3>>
    /\ pResidual # pData
    /\ pSynth = pData

\* C2: LINNEUtility_MSConversion followed by LINNEUtility_LRConversion, both
\* in place, restores both channels at every index.
C2_MSRoundTrip == msPc = "lr" => msBuf = msIn

\* a round trip in which R - L wraps
C2_Witness ==
    /\ msPc = "lr"
    /\ msIn = << <<INT32_MIN, 4>>, <<INT32_MAX, -3>> >>
    /\ msBuf = msIn

\* C3: after every block, the decoder's output is the encoder's input and both
\* filter states hold the last original sample of the block as prev.
C3_PreemphasisRoundTrip ==
    (prPc = "idle" /\ nBlocks > 0)
        => /\ blkDec = blkIn
           /\ enc.prev = At(blkIn, Len(blkIn) - 1)
           /\ dec.prev = enc.prev
           /\ dec.coef = enc.coef

\* a second block, filtered with a non-zero coefficient from a carried prev,
\* whose filtered form differs from the block
C3_Witness ==
    /\ prPc = "idle"
    /\ nBlocks = 2
    /\ enc.coef # 0
    /\ Len(blkIn) = 2
    /\ At(blkEnc, 0) # At(blkIn, 0)
    /\ At(blkEnc, 1) # At(blkIn, 1)
    /\ blkDec = blkIn

\* the smallest power of two >= v, for the uint32_t v in 1..2^31
CeilPow2(v) ==
    IF v < 0 \/ v > 2 ^ 30 THEN U2P31
    ELSE CHOOSE p \in { 2 ^ k : k \in 0..30 } :
            p >= v /\ \A q \in { 2 ^ k : k \in 0..30 } : q >= v => p <= q

\* C7: LINNEUtility_RoundUp2PoweredSoft returns 1 for 0, 1 for 1,
\* 8 for 5, 2^31 for 2^31, and the smallest power of two >= v for 1 <= v <= 2^31.
C7_RoundUpPow2Claim ==
    uPc = "done"
        => /\ (uIn = 0 => uOut = 1)
           /\ (uIn = 1 => uOut = 1)
           /\ (uIn = 5 => uOut = 8)
           /\ (uIn = U2P31 => uOut = U2P31)
           /\ ((uIn >= 1 \/ uIn = U2P31) => uOut = CeilPow2(uIn))

\* what the forward M/S transform makes of one sample pair (l, r): channel 1
\* is r - l and channel 0 is l + floor((r - l) / 2), as integers when r - l
\* fits int32_t and modulo 2^32 otherwise
MSFormula(l, r, m, sd) ==
    IF SubFits(r, l)
        THEN sd = r - l /\ m = l + ((r - l) \div 2)
        ELSE AddW(sd, l) = r /\ m = AddW(l, Sar(sd, 1))

MSFormulaHolds ==
    \A i \in 1..Len(msIn[1]) : MSFormula(msIn[1][i], msIn[2][i], msBuf[1][i], msBuf[2][i])

\* C8: the example L = [10, -3, 7], R = [4, -3, 9] becomes
\* M = [8, -3, 8], S = [-6, 0, 2]; for every sample channel 1 becomes R - L
\* and channel 0 becomes L + floor((R - L) / 2).
C8_MSExampleClaim ==
    msPc = "ms"
        => /\ (msIn = MSExample => msBuf = << <<8, -3, 8>>, <<-6, 0, 2>> >>)
           /\ MSFormulaHolds

\* C8 (amended): the example becomes M = [7, -3, 8], S = [-6, 0, 2]; the
\* general formula as claimed.
C8_MSExample ==
    msPc = "ms"
        => /\ (msIn = MSExample => msBuf = << <<7, -3, 8>>, <<-6, 0, 2>> >>)
           /\ MSFormulaHolds

\* the example after the forward transform
C8_Witness == msPc = "ms" /\ msIn = MSExample /\ msBuf[2] = <<-6, 0, 2>>

\* C10: with shift == 0, LPC_Predict returns InvalidArgument and has written
\* nothing to the residual buffer; LPC_Synthesize returns InvalidArgument and
\* has left its buffer unchanged.
C10_ShiftZeroRejected ==
    pShift = 0
        => /\ pPc # "idle"
                => /\ pStatus = LPC_APIRESULT_INVALID_ARGUMENT
                   /\ pResidual \in { Fill(Len(pData), j) : j \in JunkVals }
           /\ pPc = "synthesized"
                => /\ sStatus = LPC_APIRESULT_INVALID_ARGUMENT
                   /\ pSynth = pResidual

\* both calls made with shift == 0 on a non-empty signal with coefficients
C10_Witness ==
    /\ pPc = "synthesized"
    /\ pShift = 0
    /\ Len(pData) >= 2
    /\ Len(pCoef) >= 1
    /\ sStatus = LPC_APIRESULT_INVALID_ARGUMENT

(***************************************************************************)
(* Quantizer range.                                                        *)
(***************************************************************************)
\* the call is one the range statement speaks of: p >= 2 and the largest
\* magnitude M of the vector satisfies 2^-(p-1) < M < 2^(p-2)
QuantInRange ==
    /\ qIn.nbits_precision >= 2
    /\ LET M == MaxAbsCoef(qIn.double_coef, 0, R(0))
       IN  /\ RLt(Pow2(-(qIn.nbits_precision - 1)), M)
           /\ RLt(M, Pow2(qIn.nbits_precision - 2))

QMax == 2 ^ (qIn.nbits_precision - 1)

\* C6: in range, every emitted coefficient q satisfies
\* -2^(p-1) < q < 2^(p-1), for every order and every combination of
\* coefficient values, the carried error included
C6_QuantizedStrictlySymmetric ==
    (qPc = "done" /\ QuantInRange) =>
        /\ qOut.status = LPC_APIRESULT_OK
        /\ \A i \in 1..Len(qOut.int_coef) :
              -QMax < qOut.int_coef[i] /\ qOut.int_coef[i] < QMax

\* what the saturation of qtmp does guarantee: -qmax <= q <= qmax - 1
QuantizedWithinSaturationRange ==
    (qPc = "done" /\ QuantInRange) =>
        /\ qOut.status = LPC_APIRESULT_OK
        /\ Len(qOut.int_coef) = Len(qIn.double_coef)
        /\ \A i \in 1..Len(qOut.int_coef) :
              -QMax <= qOut.int_coef[i] /\ qOut.int_coef[i] <= QMax - 1

\* an in-range call of order two that emitted both ends of the saturation range
C6_Witness ==
    /\ qPc = "done" /\ QuantInRange
    /\ Len(qIn.double_coef) = 2
    /\ \E i \in 1..2 : qOut.int_coef[i] = -QMax
    /\ \E i \in 1..2 : qOut.int_coef[i] = QMax - 1

(***************************************************************************)
(* The estimators.                                                         *)
(***************************************************************************)
\* the call was made with one of the three window kinds
KnownWindow ==
    call.window_type \in
        {LPC_WINDOWTYPE_RECTANGULAR, LPC_WINDOWTYPE_SIN, LPC_WINDOWTYPE_WELCH}

\* the call asks for what the calculators were created for
WithinLimits ==
    /\ call.coef_order <= lpcc.max_order
    /\ call.num_samples <= lpcc.max_num_buffer_samples

SilentBlock == \A i \in 1..Len(call.data) : call.data[i] = R(0)

\* C4: on a silent block with 1 <= coef_order <= max_order and
\* coef_order < num_samples <= max_num_samples every estimator succeeds and
\* writes all-zero coefficients (so no assertion fails on the way)
C4_SilentBlockAllZero ==
    (/\ cPc = "called" /\ KnownWindow /\ WithinLimits /\ SilentBlock
     /\ 1 <= call.coef_order /\ call.coef_order < call.num_samples) =>
        \A r \in {ret, retB} :
            /\ r.status = LPC_APIRESULT_OK
            /\ r.coef = Fill(call.coef_order, R(0))

\* C5: every entry point answers coef_order > max_order with ExceedMaxOrder
\* and num_samples > max_num_samples with ExceedMaxNumSamples, and such a
\* call leaves the calculators and the output array as they were
C5_ExceedingCallsRejected ==
    [][(cPc' = "called" /\ ~(WithinLimits')) =>
            /\ lpcc' = lpcc /\ lpccB' = lpccB
            /\ \A r \in {ret', retB'} :
                 /\ r.coef = call'.coef
                 /\ ~r.oob
                 /\ r.status = IF call'.coef_order > lpcc.max_order
                               THEN LPC_APIRESULT_EXCEED_MAX_ORDER
                               ELSE LPC_APIRESULT_EXCEED_MAX_NUM_SAMPLES]_vars

\* C9: the same call on two calculators of one configuration returns the
\* same status and the same coefficients, whatever their arrays held before
C9_HistoryIndependent ==
    (cPc = "called" /\ KnownWindow /\ WithinLimits) =>
        /\ ret.status = retB.status
        /\ ret.coef = retB.coef

(***************************************************************************)
(* Unknown window kind.                                                    *)
(***************************************************************************)
\* C11: an analysis call with a window kind that is none of rectangular, sine
\* or Welch fails with InvalidArgument, at the windowing routine and at the
\* entry point LPCCalculator_CalculateLPCCoefficients
C11_UnknownWindowInvalidArgument ==
    (/\ cPc = "called" /\ call.api = "LD" /\ WithinLimits
     /\ call.window_type = WindowTypeOther) =>
        /\ LPC_ApplyWindow(call.window_type, call.data, call.num_samples,
                           lpcc.buffer, "kept").err = LPC_APIRESULT_INVALID_ARGUMENT
        /\ ret.status = LPC_APIRESULT_INVALID_ARGUMENT
        /\ retB.status = LPC_APIRESULT_INVALID_ARGUMENT

\* what such a call does return: the windowing routine LPC_ERROR_NG, the
\* entry point FailedToCalculation, the output array left as it was
UnknownWindowFailsToCalculate ==
    (/\ cPc = "called" /\ call.api = "LD" /\ WithinLimits
     /\ call.window_type = WindowTypeOther) =>
        /\ LPC_ApplyWindow(call.window_type, call.data, call.num_samples,
                           lpcc.buffer, "kept").err = LPC_ERROR_NG
        /\ ret.status = LPC_APIRESULT_FAILED_TO_CALCULATION
        /\ ret.coef = call.coef

\* an in-limits Levinson-Durbin call with an unknown window kind
C11_Witness ==
    /\ cPc = "called" /\ call.api = "LD" /\ WithinLimits
    /\ call.window_type = WindowTypeOther
    /\ call.num_samples = 3 /\ call.coef_order = 2

(***************************************************************************)
(* CRC-16.                                                                 *)
(***************************************************************************)
RECURSIVE CrcBitwiseBits(_, _)
\* n rounds of: shift right by one, and xor 0xA001 in if the bit shifted out was set
CrcBitwiseBits(crc, n) ==
    IF n = 0 THEN crc
    ELSE CrcBitwiseBits(IF crc % 2 = 1 THEN Xor16(crc \div 2, 40961) ELSE crc \div 2, n - 1)

RECURSIVE CrcBitwise(_, _)
\* the bit-by-bit reflected CRC-16/IBM of the first n bytes of data
CrcBitwise(data, n) ==
    IF n = 0 THEN 0
    ELSE CHOOSE crc \in { CrcBitwiseBits(Xor16(prev, data[n]), 8) :
                            prev \in {CrcBitwise(data, n - 1)} } : TRUE

\* C12: LINNEUtility_CalculateCRC16 equals the bit-by-bit reflected CRC-16/IBM
\* (polynomial 0xA001, initial value 0, no final xor); the empty sequence and
\* the single byte 0x00 give 0x0000 and "123456789" gives 0xBB3D
C12_CRC16MatchesBitwise ==
    uPc = "crc" =>
        /\ uOut = CrcBitwise(uIn, Len(uIn))
        /\ (uIn = <<>> => uOut = 0)
        /\ (uIn = <<0>> => uOut = 0)
        /\ (uIn = CrcCheckString => uOut = 47933)

\* the checksum of "123456789" was computed
C12_Witness == uPc = "crc" /\ uIn = CrcCheckString /\ uOut = 47933

(***************************************************************************)
(* Burg reflection coefficients.                                           *)
(***************************************************************************)
\* the call is a Burg analysis of a block that is not silent, with
\* 1 <= coef_order < num_samples
BurgOnSignal ==
    /\ cPc = "called" /\ call.api = "Burg"
    /\ ~SilentBlock
    /\ 1 <= call.coef_order /\ call.coef_order <= lpcc.max_order
    /\ call.coef_order < call.num_samples

C14_CoefWithinQFormatRange ==
    /\ enc.coef >= -(2 ^ (LINNE_PREEMPHASIS_COEF_SHIFT - 1))
    /\ enc.coef <= 2 ^ (LINNE_PREEMPHASIS_COEF_SHIFT - 1) - 1

\* Preemphasis and Deemphasis leave the coefficient alone
FilteringKeepsCoef ==
    [][(FilterPreemphasis \/ FilterDeemphasis) => enc'.coef = enc.coef]_vars

\* the coefficient is 0 after a block whose zero-lag sum is below 1e-6 or
\* whose one-lag correlation is negative, and otherwise is never negative
\* unless the conversion to int32_t went out of range
CoefZeroOrClamped ==
    prPc = "calculated" =>
        /\ (RLt(CoefCorrelation(blkIn)[1], <<1, 1000000>>)
            \/ RLt(CoefCorrelation(blkIn)[2], R(0))) => enc.coef = 0
        /\ enc.coef \in 0..(2 ^ (LINNE_PREEMPHASIS_COEF_SHIFT - 1) - 1)
           \/ ~CoefCastInRange(CoefScaledRound(CoefCorrelation(blkIn)[2]))

\* the coefficient calculated from the block <<1, 2^26>> is INT32_MIN
C14_Witness ==
    /\ prPc = "calculated"
    /\ blkIn = <<1, 2 ^ 26>>
    /\ enc.coef = INT32_MIN

(***************************************************************************)
(* Welch window.                                                           *)
(***************************************************************************)
\* x[n] * 4 n (N - 1 - n) / (N - 1)^2
WelchValue(x, N, n) == RMul(At(x, n), Frac(4 * n * (N - 1 - n), (N - 1) * (N - 1)))

\* a Levinson-Durbin call with the Welch window on a block of N >= 2 samples
\* that the signal buffer holds
WelchCall ==
    /\ cPc = "called" /\ call.api = "LD" /\ WithinLimits
    /\ call.window_type = LPC_WINDOWTYPE_WELCH
    /\ call.num_samples >= 2

\* C15: the Welch window stores y[n] = x[n] * 4 n (N - 1 - n) / (N - 1)^2 at
\* every index n in 0..N-1 of the signal buffer, for even and for odd N
C15_WelchWritesEveryIndex ==
    WelchCall =>
        \A n \in 0..(call.num_samples - 1) :
            At(lpcc.buffer, n) = WelchValue(call.data, call.num_samples, n)

\* what the loop does store: every index but the centre one of an odd N
WelchWritesAllButCentre ==
    WelchCall =>
        \A n \in 0..(call.num_samples - 1) :
            \/ At(lpcc.buffer, n) = WelchValue(call.data, call.num_samples, n)
            \/ call.num_samples % 2 = 1 /\ 2 * n = call.num_samples - 1

\* three samples <<1, 1, 1>> windowed into a buffer whose centre cell held 0:
\* the cell still holds 0 where the window's value is 1
C15_Witness ==
    /\ WelchCall
    /\ call.data = <<R(1), R(1), R(1)>>
    /\ WelchValue(call.data, 3, 1) = R(1)
    /\ lpcc.buffer = <<R(0), R(0), R(0)>>

(***************************************************************************)
(* Blocked autocorrelation.                                                *)
(***************************************************************************)
\* x[0] x[k] + x[1] x[k+1] + ... + x[N-1-k] x[N-1]
PlainAutoCorrelation(x, N, k) ==
    RSumTo([i \in 0..(N - 1 - k) |-> RMul(At(x, i), At(x, i + k))], N - k)

\* the products of lag k are x[j] * x[j + k] for each j in 0..N-1-k, once each
EachProductOnce(N, k) ==
    With(AutoCorrelationPairs(N, k),
         LAMBDA pairs :
            /\ Len(pairs) = N - k
            /\ \A j \in 0..(N - 1 - k) :
                  \E t \in 1..Len(pairs) : pairs[t] \in {<<j, j + k>>, <<j + k, j>>})

\* C16: for 1 <= K <= N, LPC_CalculateAutoCorrelation(x, N, r, K) leaves
\* r[k] = sum over i in 0..N-1-k of x[i] x[i+k] for every lag k < K, forms
\* every product of a lag exactly once, and reads no index outside 0..N-1
C16_BlockedAutoCorrelationIsPlain ==
    (uPc = "autocorr" /\ 1 <= uIn.order /\ uIn.order <= Len(uIn.data)) =>
        /\ uOut.err = LPC_ERROR_OK
        /\ \A k \in 0..(uIn.order - 1) :
              At(uOut.auto_corr, k) = PlainAutoCorrelation(uIn.data, Len(uIn.data), k)
        /\ \A k \in 1..(uIn.order - 1) :
              /\ EachProductOnce(Len(uIn.data), k)
              /\ \A t \in DOMAIN AutoCorrelationPairs(Len(uIn.data), k) :
                    \A idx \in {1, 2} :
                        AutoCorrelationPairs(Len(uIn.data), k)[t][idx] \in 0..(Len(uIn.data) - 1)
        /\ \A k \in uIn.order..(Len(uIn.auto_corr) - 1) :
              At(uOut.auto_corr, k) = At(uIn.auto_corr, k)

\* six samples, all lags: lag 1 is summed as two blocked terms and one
\* remaining product, lag 2 and up as remaining products alone
C16_Witness ==
    /\ uPc = "autocorr"
    /\ uIn.data = <<R(2), R(-1), R(2), R(2), R(-1), R(2)>>
    /\ uIn.order = 6
    /\ Len(AutoCorrelationPairs(6, 1)) = 5
    /\ AutoCorrelationPairs(6, 1)[1] = <<1, 0>>
    /\ AutoCorrelationPairs(6, 1)[2] = <<1, 2>>
    /\ AutoCorrelationPairs(6, 1)[5] = <<5, 4>>
    /\ At(uOut.auto_corr, 1) = R(-4)
    /\ At(uOut.auto_corr, 5) = R(4)

(***************************************************************************)
(* The prediction formula.                                                 *)
(***************************************************************************)
RECURSIVE TapSum(_, _, _, _)
\* c[0] x[n-1] + c[1] x[n-2] + ... + c[taps-1] x[n-taps], modulo 2^32
TapSum(x, c, n, taps) ==
    IF taps = 0 THEN 0
    ELSE AddW(MulW(At(c, taps - 1), At(x, n - taps)), TapSum(x, c, n, taps - 1))

\* x[n] + ((2^(shift-1) + the sum of the taps) >> shift)
PredictedResidual(x, c, n, taps, shift) ==
    AddW(At(x, n), Sar(AddW(2 ^ (shift - 1), TapSum(x, c, n, taps)), shift))

\* C17: for order <= N and shift >= 1, LPC_Predict leaves residual[0] = x[0],
\* residual[n] with the n most recent samples as taps for 1 <= n < order, and
\* with order taps for n >= order, each as
\* x[n] + ((2^(shift-1) + sum of c[i] x[n-i-1]) >> shift) with an arithmetic
\* shift, the taps read from the original signal
C17_PredictFormula ==
    (pPc # "idle" /\ Len(pCoef) <= Len(pData) /\ pShift >= 1) =>
        /\ pStatus = LPC_APIRESULT_OK
        /\ Len(pResidual) = Len(pData)
        /\ \A n \in 0..(Len(pData) - 1) :
              At(pResidual, n) =
                  IF n = 0 THEN At(pData, 0)
                  ELSE IF n < Len(pCoef)
                      THEN PredictedResidual(pData, pCoef, n, n, pShift)
                  ELSE PredictedResidual(pData, pCoef, n, Len(pCoef), pShift)

\* order 2 on three samples: index 1 is predicted from one tap, index 2 from
\* two, and the accumulator -13 of index 1 is shifted down to -4
C17_Witness ==
    /\ pPc = "predicted"
    /\ pShift = 2
    /\ pCoef = <<-3, 1>>
    /\ pData = <<5, -3, 5>>
    /\ pResidual = <<5, -3 + (-4), 5 + 4>>

(***************************************************************************)
(* Blocks shorter than the order.                                          *)
(***************************************************************************)
\* a Levinson-Durbin call within the calculator's limits with fewer samples
\* than the order
ShortBlockCall ==
    /\ cPc = "called" /\ call.api = "LD" /\ KnownWindow /\ WithinLimits
    /\ call.num_samples < call.coef_order

\* C18: with num_samples < coef_order <= max_order the coefficient
\* calculation succeeds with lpc_coef[0..coef_order] and parcor_coef[0..coef_order]
\* all zero, and the autocorrelation step before the guard fails no assertion
C18_ShortBlockZeroCoefficients ==
    ShortBlockCall =>
        /\ ret.status = LPC_APIRESULT_OK
        /\ \A ord \in 0..call.coef_order :
              /\ At(lpcc.lpc_coef, ord) = R(0)
              /\ At(lpcc.parcor_coef, ord) = R(0)

\* what such a call does: the assertion of LPC_CalculateAutoCorrelation
\* fails before the guard is reached
ShortBlockFailsAssertion ==
    ShortBlockCall => ret.status = LPC_ASSERTION_FAILED /\ ret.coef = call.coef

\* one sample analysed with order 2
C18_Witness ==
    /\ ShortBlockCall
    /\ call.num_samples = 1 /\ call.coef_order = 2
    /\ call.window_type = LPC_WINDOWTYPE_RECTANGULAR
    /\ ret.status = LPC_ASSERTION_FAILED

(***************************************************************************)
(* The quantizer's shift.                                                  *)
(***************************************************************************)
\* the largest magnitude of the quantizer's input
QuantMax == MaxAbsCoef(qIn.double_coef, 0, R(0))

\* the quantizer was called with p >= 1 and returned success
QuantSucceeded ==
    /\ qPc = "done" /\ qIn.nbits_precision >= 1
    /\ qOut.status = LPC_APIRESULT_OK

\* C19: a successful LPC_QuantizeCoefficients with p >= 1 returns a shift of
\* at least 1: p when every magnitude is at most 2^-(p-1), (p - 1) - ndigit
\* otherwise, where 2^(ndigit-1) <= M < 2^ndigit; LPC_Predict and
\* LPC_Synthesize do not reject the pair for its shift; and a vector with
\* M >= 2^(p-2) never gives a success with a shift <= 0
C19_QuantizedShiftAtLeastOne ==
    QuantSucceeded =>
        /\ qOut.coef_rshift >= 1
        /\ IF RLe(QuantMax, Pow2(-(qIn.nbits_precision - 1)))
           THEN qOut.coef_rshift = qIn.nbits_precision
           ELSE \E ndigit \in (-8)..8 :
                   /\ RLe(Pow2(ndigit - 1), QuantMax) /\ RLt(QuantMax, Pow2(ndigit))
                   /\ qOut.coef_rshift = (qIn.nbits_precision - 1) - ndigit
        /\ \A g \in GarbageVals :
              /\ LPC_Predict(Fill(Len(qOut.int_coef) + 1, 1), qOut.int_coef,
                             Fill(Len(qOut.int_coef) + 1, 0), qOut.coef_rshift, g).status
                     = LPC_APIRESULT_OK
              /\ LPC_Synthesize(Fill(Len(qOut.int_coef) + 1, 1), qOut.int_coef,
                                qOut.coef_rshift, g).status = LPC_APIRESULT_OK
        /\ RLe(Pow2(qIn.nbits_precision - 2), QuantMax) => ~(qOut.coef_rshift <= 0)

\* p = 3 and M = 7/8: ndigit is 0 and the shift is 2
C19_Witness ==
    /\ QuantSucceeded
    /\ qIn.nbits_precision = 3
    /\ qIn.double_coef = <<Frac(-7, 8), Frac(1, 2)>>
    /\ qOut.coef_rshift = 2

\* a vector with M >= 2^(p-2) that is not all-zero after scaling stops at the
\* assertion and returns nothing
LargeMagnitudeStopsAtAssertion ==
    (/\ qPc = "done" /\ qIn.nbits_precision >= 1
     /\ RLe(Pow2(qIn.nbits_precision - 2), QuantMax)
     /\ ~RLe(QuantMax, Pow2(-(qIn.nbits_precision - 1))))
        => qOut.status = LPC_ASSERTION_FAILED

(***************************************************************************)
(* Accesses of LPC_Predict and LPC_Synthesize.                             *)
(***************************************************************************)
\* C20: for every num_samples N and every coef_order, also coef_order > N
\* and N = 0, LPC_Predict reads data and writes residual, and LPC_Synthesize
\* reads and writes data, only at indices in 0..N-1
C20_AccessesWithinSignal == ~pOob

\* the accesses do stay inside when coef_order <= N or coef_order <= 1, and
\* leave 0..N-1 in every accepted call with coef_order > N and coef_order >= 2
AccessesOutsideOnlyInRampUp ==
    pPc # "idle" =>
        (pOob <=> (pShift # 0 /\ Len(pCoef) > Len(pData) /\ Len(pCoef) >= 2))

\* order 2 on one sample: the ramp-up loop has stored to residual[1]
C20_Witness ==
    /\ pPc = "predicted"
    /\ Len(pData) = 1 /\ Len(pCoef) = 2 /\ pShift = 1
    /\ pStatus = LPC_APIRESULT_OK
    /\ pOob

====
